---- MODULE Spec2Model ----
(***************************************************************************)
(* Hybrid retrieval and selection engine of Resumax (backend/app).         *)
(*                                                                         *)
(* Texts are sequences of one-character strings, so that lower-casing,     *)
(* substring search and whitespace splitting are computed as Python        *)
(* computes them.  Scores are exact rationals <<num, den>> with den > 0;   *)
(* floating-point rounding is not modelled.                                *)
(***************************************************************************)
EXTENDS Integers, Sequences, FiniteSets, TLC

VARIABLES
    op,          \* the operation whose result is held ("idle" between requests)
    input,       \* the arguments and environment outcomes of that operation
    output,      \* what the operation returned
    calls,       \* the calls to collaborators made by that operation, in order
    raised,      \* TRUE when the operation ended by raising to its caller
    collection,  \* the persisted vector-store collection (survives operations)
    loop         \* the server's event loop: the request holding its thread
                 \* and how far every request has come

vars == <<op, input, output, calls, raised, collection, loop>>

(***************************************************************************)
(* Bounds of the model.                                                    *)
(***************************************************************************)
MaxTextLen == 2      \* longest enumerated bullet text (characters)
MaxKeywords == 2     \* longest enumerated keyword list
MaxKwLen == 1        \* longest enumerated keyword (characters)
MaxTexts == 2        \* longest list handed to generate_embeddings_batch
MaxBatchSize == 2    \* largest enumerated batch_size
MaxExtra == 1        \* most items a response carries beyond its chunk's size
EmbDim == 2          \* embedding_dimensions of the modelled provider
MaxStore == 4        \* most items the collection holds
MaxTopK == 2         \* largest enumerated top_k (the schema allows 1..20)
MaxBullets == 2      \* most bullets of one section
MaxTopN == 2         \* largest enumerated per-section limit (schema: >= 1)
MaxRankings == 2     \* most ranking entries of one provider response
DistScale == 4       \* distances are multiples of 1 / DistScale
MaxLineChars == 140  \* longest text whose rendered lines are estimated
MaxRequests == 3     \* requests the server receives
MaxSections == 2     \* most sections of one resume

(***************************************************************************)
(* Rationals.                                                              *)
(***************************************************************************)
Rat(n, d) == <<n, d>>
RatLe(a, b) == a[1] * b[2] <= b[1] * a[2]
RatLt(a, b) == a[1] * b[2] < b[1] * a[2]
RatEq(a, b) == a[1] * b[2] = b[1] * a[2]
RatAdd(a, b) == Rat(a[1] * b[2] + b[1] * a[2], a[2] * b[2])
RatMul(a, b) == Rat(a[1] * b[1], a[2] * b[2])
RatZero == Rat(0, 1)
RatOne == Rat(1, 1)
InUnitInterval(a) == RatLe(RatZero, a) /\ RatLe(a, RatOne)

(***************************************************************************)
(* Text primitives: str.lower(), the substring test `a in b`.              *)
(***************************************************************************)
LowerChar(c) ==
    CASE c = "A" -> "a"
      [] c = "B" -> "b"
      [] c = "C" -> "c"
      [] c = "D" -> "d"
      [] c = "E" -> "e"
      [] c = "G" -> "g"
      [] c = "I" -> "i"
      [] c = "L" -> "l"
      [] c = "O" -> "o"
      [] c = "T" -> "t"
      [] c = "U" -> "u"
      [] OTHER -> c

Lower(text) == [i \in 1..Len(text) |-> LowerChar(text[i])]

IsSubstring(s, t) ==
    \E i \in 0..(Len(t) - Len(s)) : SubSeq(t, i + 1, i + Len(s)) = s

TextsUpTo(chars, n) == UNION {[1..k -> chars] : k \in 0..n}

ListsUpTo(S, n) == UNION {[1..k -> S] : k \in 0..n}

(***************************************************************************)
(* VectorSearch.compute_keyword_score (core/search.py).                    *)
(***************************************************************************)
RECURSIVE CountMatches(_, _)
CountMatches(keywords, bullet_lower) ==
    IF keywords = <<>> THEN 0
    ELSE (IF IsSubstring(Lower(Head(keywords)), bullet_lower) THEN 1 ELSE 0)
         + CountMatches(Tail(keywords), bullet_lower)

\* Mutant: the bullet is not lower-cased before the substring tests.
compute_keyword_score_case_sensitive(bullet, keywords) ==
    IF keywords = <<>> THEN RatZero
    ELSE Rat(CountMatches(keywords, bullet), Len(keywords))

compute_keyword_score(bullet, keywords) ==
    IF keywords = <<>> THEN RatZero
    ELSE LET bullet_lower == Lower(bullet)
             matches == CountMatches(keywords, bullet_lower)
         IN  Rat(matches, Len(keywords))

KwChars == {"a", "A", "b"}

ComputeKeywordScore ==
    /\ op = "idle"
    /\ \E bullet \in TextsUpTo(KwChars, MaxTextLen) :
         \E keywords \in ListsUpTo(TextsUpTo(KwChars, MaxKwLen), MaxKeywords) :
           /\ op' = "compute_keyword_score"
           /\ input' = [bullet |-> bullet, keywords |-> keywords]
           /\ output' = compute_keyword_score(bullet, keywords)
           /\ calls' = <<>>
           /\ raised' = FALSE
           /\ UNCHANGED <<collection, loop>>

(***************************************************************************)
(* Embedding vectors (core/embeddings.py).                                 *)
(***************************************************************************)
Vec(a, b) == [i \in 1..EmbDim |-> IF i = 1 THEN a ELSE IF i = 2 THEN b ELSE 0]

\* [0.0] * self.embedding_dimensions
ZeroVector == [i \in 1..EmbDim |-> 0]

(***************************************************************************)
(* The embeddings endpoint as seen by generate_embeddings_batch: per chunk *)
(* either the request fails (transport error, HTTP status, body that is    *)
(* not JSON), or a body arrives whose "data" is a list of items.  An item  *)
(* is an object with an "embedding", an object without that key, or not an *)
(* object at all.                                                          *)
(***************************************************************************)
RequestError == [kind |-> "error", data |-> <<>>]
Body(data) == [kind |-> "data", data |-> data]
EmbItem(v) == [tag |-> "embedding", embedding |-> v]
NoKeyItem == [tag |-> "nokey", embedding |-> <<>>]
NotDictItem == [tag |-> "notdict", embedding |-> <<>>]

Min(a, b) == IF a <= b THEN a ELSE b
Max(a, b) == IF a >= b THEN a ELSE b

\* range(0, len(texts), batch_size): the number of chunks
NumChunks(n, batch_size) == (n + batch_size - 1) \div batch_size

\* texts[start:start + batch_size] for the chunk numbered c (from 1)
ChunkOf(texts, batch_size, c) ==
    SubSeq(texts, (c - 1) * batch_size + 1, Min(c * batch_size, Len(texts)))

\* Lines 127-128: items are appended one by one; an item that is no object
\* raises in the middle of the loop, after the earlier ones were appended.
RECURSIVE AppendItems(_, _)
AppendItems(embeddings, data) ==
    IF data = <<>> THEN [embeddings |-> embeddings, raised |-> FALSE]
    ELSE LET item == Head(data)
         IN  IF item.tag = "notdict"
             THEN [embeddings |-> embeddings, raised |-> TRUE]
             ELSE AppendItems(
                    Append(embeddings,
                           IF item.tag = "nokey" THEN ZeroVector
                           ELSE item.embedding),
                    Tail(data))

ZeroVectors(n) == [i \in 1..n |-> ZeroVector]

\* One iteration of the loop at lines 115-133.
BatchStep(embeddings, batch, response) ==
    IF response.kind = "error" \/ response.data = <<>>
    THEN embeddings \o ZeroVectors(Len(batch))
    ELSE LET r == AppendItems(embeddings, response.data)
         IN  IF r.raised THEN r.embeddings \o ZeroVectors(Len(batch))
             ELSE r.embeddings

RECURSIVE BatchLoop(_, _, _, _, _)
BatchLoop(texts, batch_size, responses, c, embeddings) ==
    IF c > NumChunks(Len(texts), batch_size) THEN embeddings
    ELSE BatchLoop(texts, batch_size, responses, c + 1,
                   BatchStep(embeddings, ChunkOf(texts, batch_size, c),
                             responses[c]))

\* Mutant: the final alignment is left out.
AlignLengthOmitted(embeddings, n) == embeddings

\* Lines 135-140: pad with zero vectors or truncate to len(texts).
AlignLength(embeddings, n) ==
    IF Len(embeddings) < n
    THEN embeddings \o ZeroVectors(n - Len(embeddings))
    ELSE IF Len(embeddings) > n THEN SubSeq(embeddings, 1, n)
    ELSE embeddings

generate_embeddings_batch(texts, batch_size, responses) ==
    IF texts = <<>> THEN <<>>
    ELSE AlignLength(BatchLoop(texts, batch_size, responses, 1, <<>>),
                     Len(texts))

\* requests.post blocks until the endpoint has answered or the request has
\* failed: every call is a "post" event followed by its "returned" or
\* "failed" event.
PostEvent(event, c, batch) ==
    [name |-> "requests.post", event |-> event, chunk |-> c, batch |-> batch]

PostEvents(c, batch, response) ==
    <<PostEvent("post", c, batch),
      PostEvent(IF response.kind = "error" THEN "failed" ELSE "returned",
                c, batch)>>

\* Mutant: the loop is left at the first chunk whose request failed.
RECURSIVE RequestLoopUntilFailure(_, _, _, _, _)
RequestLoopUntilFailure(texts, batch_size, responses, c, events) ==
    IF c > NumChunks(Len(texts), batch_size) THEN events
    ELSE IF responses[c].kind = "error"
    THEN events \o PostEvents(c, ChunkOf(texts, batch_size, c), responses[c])
    ELSE RequestLoopUntilFailure(
             texts, batch_size, responses, c + 1,
             events \o PostEvents(c, ChunkOf(texts, batch_size, c),
                                  responses[c]))

\* The requests of the loop at lines 115-133, in the order they are made.
RECURSIVE RequestLoop(_, _, _, _, _)
RequestLoop(texts, batch_size, responses, c, events) ==
    IF c > NumChunks(Len(texts), batch_size) THEN events
    ELSE RequestLoop(texts, batch_size, responses, c + 1,
                     events \o PostEvents(c, ChunkOf(texts, batch_size, c),
                                          responses[c]))

batch_requests(texts, batch_size, responses) ==
    IF texts = <<>> THEN <<>>
    ELSE RequestLoop(texts, batch_size, responses, 1, <<>>)

\* The embedding the provider computes for a text.
ProviderEmbedding(text) ==
    CASE text = <<"a">> -> Vec(1, 0)
      [] text = <<"b">> -> Vec(0, 1)
      [] text = <<"c">> -> Vec(1, 1)
      [] text = <<"d">> -> Vec(2, 1)
      [] text = <<"G", "o">> -> Vec(3, 4)
      [] text = <<"c", " ", "d">> -> Vec(-3, 4)
      [] text = <<>> -> Vec(4, 3)
      [] text = <<"g", "o", " ", "c">> -> Vec(1, 0)
      [] text = <<"l", "e", "a", "d">> -> Vec(696, 697)
      [] OTHER -> Vec(Len(text), 2)

\* A vector the provider returns beyond the texts it was sent.
SurplusEmbedding == Vec(2, 2)

\* The body whose item j is of kind kinds[j]: "embedding" items carry the
\* embedding of the j-th text of the chunk.
BodyOf(kinds, batch) ==
    Body([j \in 1..Len(kinds) |->
            CASE kinds[j] = "embedding" ->
                    EmbItem(IF j <= Len(batch) THEN ProviderEmbedding(batch[j])
                            ELSE SurplusEmbedding)
              [] kinds[j] = "nokey" -> NoKeyItem
              [] OTHER -> NotDictItem])

ItemKinds == {"embedding", "nokey", "notdict"}

\* The outcomes the endpoint can have for a chunk.
ResponsesFor(batch) ==
    {RequestError}
        \cup {BodyOf(kinds, batch) :
                 kinds \in ListsUpTo(ItemKinds, Len(batch) + MaxExtra)}

\* One outcome per chunk of texts.
RECURSIVE ResponseSeqsFrom(_, _, _)
ResponseSeqsFrom(texts, batch_size, c) ==
    IF c > NumChunks(Len(texts), batch_size) THEN {<<>>}
    ELSE {<<r>> \o rest :
            r \in ResponsesFor(ChunkOf(texts, batch_size, c)),
            rest \in ResponseSeqsFrom(texts, batch_size, c + 1)}

ResponseSeqs(texts, batch_size) == ResponseSeqsFrom(texts, batch_size, 1)

SampleTexts(n) == SubSeq(<<<<"a">>, <<"b">>, <<"c">>, <<"d">>, <<"a", "b">>,
                           <<"b", "c">>>>, 1, n)

GenerateEmbeddingsBatch ==
    /\ op = "idle"
    /\ \E n \in 0..MaxTexts, batch_size \in 1..MaxBatchSize :
         \E responses \in ResponseSeqs(SampleTexts(n), batch_size) :
           /\ op' = "generate_embeddings_batch"
           /\ input' = [texts |-> SampleTexts(n), batch_size |-> batch_size,
                        responses |-> responses]
           /\ output' = generate_embeddings_batch(SampleTexts(n), batch_size,
                                                  responses)
           /\ calls' = batch_requests(SampleTexts(n), batch_size, responses)
           /\ raised' = FALSE
           /\ UNCHANGED <<collection, loop>>

(***************************************************************************)
(* list.sort(key=..., reverse=True): a stable sort, descending by key.     *)
(* Keys are rationals.                                                     *)
(***************************************************************************)
RECURSIVE InsertDesc(_, _)
\* Mutant: an element is placed ahead of the elements of equal key.
InsertDescAheadOfTies(x, sorted) ==
    IF sorted = <<>> THEN <<x>>
    ELSE IF RatLe(Head(sorted).key, x.key)
         THEN <<x>> \o sorted
         ELSE <<Head(sorted)>> \o InsertDesc(x, Tail(sorted))

InsertDesc(x, sorted) ==
    IF sorted = <<>> THEN <<x>>
    ELSE IF RatLt(Head(sorted).key, x.key)
         THEN <<x>> \o sorted
         ELSE <<Head(sorted)>> \o InsertDesc(x, Tail(sorted))

RECURSIVE SortKeyedFrom(_, _, _)
SortKeyedFrom(keyed, i, acc) ==
    IF i > Len(keyed) THEN acc
    ELSE SortKeyedFrom(keyed, i + 1, InsertDesc(keyed[i], acc))

\* The values of keyed (a sequence of [key, val]) ordered by key, largest
\* first, equal keys in their order in keyed.
SortDesc(keyed) ==
    LET sorted == SortKeyedFrom(keyed, 1, <<>>)
    IN  [i \in 1..Len(sorted) |-> sorted[i].val]

\* seq[:n] for n >= 0
Prefix(seq, n) == SubSeq(seq, 1, Min(n, Len(seq)))

RECURSIVE SetToSeq(_)
SetToSeq(S) ==
    IF S = {} THEN <<>>
    ELSE LET x == CHOOSE y \in S : TRUE IN <<x>> \o SetToSeq(S \ {x})

(***************************************************************************)
(* VectorSearch.extract_keywords (core/search.py) over a sample of the     *)
(* catalog in core/keyword_patterns.py.                                    *)
(***************************************************************************)
UpperChars == {"A", "B", "C", "D", "E", "G", "I", "L", "O", "T", "U"}
NonWordChars == {" ", ",", "."}
IsWordChar(c) == c \notin NonWordChars

\* TECH_PATTERNS: "Go", "C" (programming languages), "Git" (version control)
TECH_TERMS == {<<"g", "o">>, <<"c">>, <<"g", "i", "t">>}
\* ACTION_VERBS
ACTION_VERBS == {<<"l", "e", "a", "d">>, <<"b", "u", "i", "l", "d">>}
\* COMMON_WORDS
COMMON_WORDS == {<<"T", "h", "e">>, <<"A", "l", "l">>}
\* tech_terms[:15]
CapitalizedLimit == 15

\* \b between text[k] and text[k + 1] (k = 0 is the start, Len the end)
WordBoundary(text, k) ==
    LET before == k >= 1 /\ IsWordChar(text[k])
        after == k < Len(text) /\ IsWordChar(text[k + 1])
    IN  before # after

\* re.findall(r'\b(?:term)\b', text, re.IGNORECASE) is not empty; every match
\* lower-cases to term
TechTermFound(term, text) ==
    \E i \in 0..(Len(text) - Len(term)) :
        /\ SubSeq(Lower(text), i + 1, i + Len(term)) = term
        /\ WordBoundary(text, i)
        /\ WordBoundary(text, i + Len(term))

\* The maximal runs of characters outside seps, in order.
RECURSIVE SplitFrom(_, _, _, _, _)
SplitFrom(text, seps, i, cur, acc) ==
    LET flushed == IF cur = <<>> THEN acc ELSE Append(acc, cur)
    IN  IF i > Len(text) THEN flushed
        ELSE IF text[i] \in seps
             THEN SplitFrom(text, seps, i + 1, <<>>, flushed)
             ELSE SplitFrom(text, seps, i + 1, Append(cur, text[i]), acc)

SplitOn(text, seps) == SplitFrom(text, seps, 1, <<>>, <<>>)

\* re.findall(r'\b[A-Z][a-z]{2,}\b', text)
IsCapitalizedTerm(tok) ==
    /\ Len(tok) >= 3
    /\ tok[1] \in UpperChars
    /\ \A i \in 2..Len(tok) : tok[i] \notin UpperChars

capitalized_terms(text) ==
    SelectSeq(SplitOn(text, NonWordChars), IsCapitalizedTerm)

NotCommonWord(term) == term \notin COMMON_WORDS

\* Mutant: the collected keywords are returned without set(...).
extract_keywords_without_dedup(text) ==
    LET tech == {t \in TECH_TERMS : TechTermFound(t, text)}
        verbs == {v \in ACTION_VERBS : IsSubstring(v, Lower(text))}
        tech_terms == SelectSeq(capitalized_terms(text), NotCommonWord)
        kept == Prefix(tech_terms, CapitalizedLimit)
    IN  SetToSeq(tech) \o SetToSeq(verbs)
            \o [i \in 1..Len(kept) |-> Lower(kept[i])]

extract_keywords(text) ==
    LET tech == {t \in TECH_TERMS : TechTermFound(t, text)}
        verbs == {v \in ACTION_VERBS : IsSubstring(v, Lower(text))}
        tech_terms == SelectSeq(capitalized_terms(text), NotCommonWord)
        kept == Prefix(tech_terms, CapitalizedLimit)
    IN  SetToSeq(tech \cup verbs \cup {Lower(kept[i]) : i \in 1..Len(kept)})

\* list(set(keywords)) lists the set in an order the caller cannot rely on.
Orderings(seq) ==
    {[i \in 1..Len(seq) |-> seq[p[i]]] : p \in Permutations(1..Len(seq))}

\* "Git git", "The Git", "go, Go. GO", "All Build C" and "LEAD the team"
TextGitGit == <<"G", "i", "t", " ", "g", "i", "t">>
TextTheGit == <<"T", "h", "e", " ", "G", "i", "t">>
TextGoGoGo == <<"g", "o", ",", " ", "G", "o", ".", " ", "G", "O">>
TextAllBuildC == <<"A", "l", "l", " ", "B", "u", "i", "l", "d", " ", "C">>
TextLeadTeam == <<"L", "E", "A", "D", " ", "t", "h", "e", " ", "t", "e", "a", "m">>
KeywordTexts ==
    {<<>>, TextGitGit, TextTheGit, TextGoGoGo, TextAllBuildC, TextLeadTeam,
     <<"G", "o", " ", "l", "e", "a", "d">>,
     <<"L", "e", "a", "d", " ", "G", "o">>,
     <<"G", "o", "l", "a", "n", "g">>, <<"t", "h", "e">>}

ExtractKeywords ==
    /\ op = "idle"
    /\ \E text \in KeywordTexts :
         \E keywords \in Orderings(extract_keywords(text)) :
           /\ op' = "extract_keywords"
           /\ input' = text
           /\ output' = keywords
           /\ calls' = <<>>
           /\ raised' = FALSE
           /\ UNCHANGED <<collection, loop>>

(***************************************************************************)
(* The vector store (chromadb collection) as VectorSearch uses it.         *)
(* collection is the sequence of stored items in insertion order; an item  *)
(* is [id, document, embedding].                                           *)
(***************************************************************************)
\* collection.count()
Count(coll) == Len(coll)

StoredEmbeddings(coll) == {coll[i].embedding : i \in 1..Len(coll)}

\* collection.query(query_embeddings=[q], n_results=k): the k nearest stored
\* items, nearest first.  dist[e] is the distance of a stored embedding e
\* from the query embedding, in units of 1 / DistScale.  Items at the same
\* distance keep insertion order.
StoreQuery(coll, dist, k) ==
    LET order == SortDesc([i \in 1..Len(coll) |->
                              [key |-> Rat(0 - dist[coll[i].embedding], 1),
                               val |-> i]])
        hits == Prefix(order, Max(k, 0))
    IN  [documents |-> [j \in 1..Len(hits) |-> coll[hits[j]].document],
         distances |-> [j \in 1..Len(hits) |-> dist[coll[hits[j]].embedding]]]

(***************************************************************************)
(* VectorSearch.search_similar / search_hybrid (core/search.py).           *)
(***************************************************************************)
\* 1 - dist
semantic_score(distance) == Rat(DistScale - distance, DistScale)

\* Mutant: the weights are exchanged (30% semantic, 70% keyword).
hybrid_score_swapped(semantic, keyword) ==
    RatAdd(RatMul(Rat(3, 10), semantic), RatMul(Rat(7, 10), keyword))

\* (0.7 * semantic_score) + (0.3 * keyword_score)
hybrid_score(semantic, keyword) ==
    RatAdd(RatMul(Rat(7, 10), semantic), RatMul(Rat(3, 10), keyword))

\* Mutant: no over-fetch, only top_k candidates are retrieved.
candidate_k_no_overfetch(top_k, count) == Min(top_k, count)

\* min(top_k * 2, self.collection.count())
candidate_k(top_k, count) == Min(top_k * 2, count)

\* Mutant: the candidates are cut to top_k without being sorted.
rerank_unsorted(hybrid_scores, top_k) == Prefix(hybrid_scores, top_k)

\* hybrid_scores.sort(key=lambda x: x[1], reverse=True); hybrid_scores[:top_k]
rerank(hybrid_scores, top_k) ==
    Prefix(SortDesc([j \in 1..Len(hybrid_scores) |->
                        [key |-> hybrid_scores[j][2], val |-> hybrid_scores[j]]]),
           top_k)

EmbeddingCall == [name |-> "generate_embedding", n_results |-> 0]
CountCall == [name |-> "collection.count", n_results |-> 0]
QueryCall(k) == [name |-> "collection.query", n_results |-> k]

\* collection.query validates n_results before searching.  The chromadb
\* releases differ: some raise for n_results = 0 and for n_results above the
\* number of stored items (store_strict), others return what there is.
StoreRejects(coll, k, store_strict) ==
    store_strict /\ (k <= 0 \/ k > Count(coll))

\* Mutant: the store is queried without looking at the embedding.
search_hybrid_without_embedding_guard(coll, dist, job_description, top_k, query_embedding, store_strict) ==
    LET keywords == extract_keywords(job_description)
        k == candidate_k(top_k, Count(coll))
        results == StoreQuery(coll, dist, k)
    IN  [result |->
            rerank([j \in 1..Len(results.documents) |->
                       <<results.documents[j],
                         hybrid_score(semantic_score(results.distances[j]),
                                      compute_keyword_score(
                                          results.documents[j], keywords))>>],
                   top_k),
         calls |-> <<EmbeddingCall, CountCall, QueryCall(k)>>,
         raised |-> FALSE]

\* query_embedding is <<>> when generate_embedding returned None.
search_hybrid(coll, dist, job_description, top_k, query_embedding, store_strict) ==
    LET keywords == extract_keywords(job_description)
        k == candidate_k(top_k, Count(coll))
        results == StoreQuery(coll, dist, k)
        documents == results.documents
        distances == results.distances
        hybrid_scores ==
            [j \in 1..Min(Len(documents), Len(distances)) |->
                <<documents[j],
                  hybrid_score(semantic_score(distances[j]),
                               compute_keyword_score(documents[j], keywords))>>]
    IN  IF query_embedding = <<>>
        THEN [result |-> <<>>, calls |-> <<EmbeddingCall>>, raised |-> FALSE]
        ELSE IF StoreRejects(coll, k, store_strict)
        THEN [result |-> <<>>,
              calls |-> <<EmbeddingCall, CountCall, QueryCall(k)>>,
              raised |-> TRUE]
        ELSE IF documents = <<>>
        THEN [result |-> <<>>,
              calls |-> <<EmbeddingCall, CountCall, QueryCall(k)>>,
              raised |-> FALSE]
        ELSE [result |-> rerank(hybrid_scores, top_k),
              calls |-> <<EmbeddingCall, CountCall, QueryCall(k)>>,
              raised |-> FALSE]

search_similar(coll, dist, job_description, top_k, use_hybrid, query_embedding, store_strict) ==
    IF use_hybrid
    THEN search_hybrid(coll, dist, job_description, top_k, query_embedding,
                       store_strict)
    ELSE IF query_embedding = <<>>
    THEN [result |-> <<>>, calls |-> <<EmbeddingCall>>, raised |-> FALSE]
    ELSE IF StoreRejects(coll, top_k, store_strict)
    THEN [result |-> <<>>, calls |-> <<EmbeddingCall, QueryCall(top_k)>>,
          raised |-> TRUE]
    ELSE LET results == StoreQuery(coll, dist, top_k)
             documents == results.documents
             distances == results.distances
         IN  [result |->
                 IF documents = <<>> THEN <<>>
                 ELSE [j \in 1..Min(Len(documents), Len(distances)) |->
                          <<documents[j], semantic_score(distances[j])>>],
              calls |-> <<EmbeddingCall, QueryCall(top_k)>>,
              raised |-> FALSE]

\* "Go lead": keywords go, lead.
QueryGoLead == <<"G", "o", " ", "l", "e", "a", "d">>
\* "the": no keyword.
QueryPlain == <<"t", "h", "e">>
QueryPool == {QueryGoLead, QueryPlain}

\* Documents matching both, one and none of the keywords of QueryGoLead.
DocBoth == <<"L", "e", "a", "d", " ", "G", "o">>
DocOne == <<"G", "o", "l", "a", "n", "g">>
DocNone == <<"c">>
DocPool == {DocBoth, DocOne, DocNone}

\* The distances the store reports: 0, 1/DistScale and one beyond 1.
Distances == {0, 1, DistScale + 2}

SearchSimilar ==
    /\ op = "idle"
    /\ \E job_description \in QueryPool, top_k \in 1..MaxTopK,
          use_hybrid \in BOOLEAN, embedded \in BOOLEAN,
          store_strict \in BOOLEAN :
         \E dist \in [StoredEmbeddings(collection) -> Distances] :
           LET query_embedding ==
                   IF embedded THEN ProviderEmbedding(job_description) ELSE <<>>
               r == search_similar(collection, dist, job_description, top_k,
                                   use_hybrid, query_embedding, store_strict)
           IN  /\ embedded \/ \A e \in DOMAIN dist : dist[e] = 0
               /\ store_strict => r.raised
               /\ op' = "search_similar"
               /\ input' = [job_description |-> job_description, top_k |-> top_k,
                            use_hybrid |-> use_hybrid,
                            query_embedding |-> query_embedding, dist |-> dist,
                            store_strict |-> store_strict]
               /\ output' = r.result
               /\ calls' = r.calls
               /\ raised' = r.raised
               /\ UNCHANGED <<collection, loop>>

(***************************************************************************)
(* VectorSearch.add_resume_points (core/search.py).                        *)
(***************************************************************************)
\* f"resume_point_{i}" for i in range(len(resume_points)), as the number i
PointIds(resume_points) == [i \in 1..Len(resume_points) |-> i - 1]

StoredIds(coll) == {coll[i].id : i \in 1..Len(coll)}

\* collection.add(embeddings, documents, ids).  An id that is already stored
\* is not stored again: depending on the chromadb release the whole call is
\* rejected ("raise") or the known ids are skipped ("skip").
StoreAdd(coll, embeddings, documents, ids, on_duplicate) ==
    LET fresh == SelectSeq([i \in 1..Len(ids) |-> i],
                           LAMBDA i : ids[i] \notin StoredIds(coll))
    IN  IF on_duplicate = "raise" /\ Len(fresh) < Len(ids) THEN coll
        ELSE coll \o [j \in 1..Len(fresh) |->
                        [id |-> ids[fresh[j]],
                         document |-> documents[fresh[j]],
                         embedding |-> embeddings[fresh[j]]]]

\* generate_embeddings_batch is called with its default batch_size.
DefaultBatchSize == 64

add_resume_points(coll, resume_points, responses, on_duplicate) ==
    LET embeddings == generate_embeddings_batch(resume_points,
                                                DefaultBatchSize, responses)
    IN  IF embeddings # <<>>
        THEN StoreAdd(coll, embeddings, resume_points,
                      PointIds(resume_points), on_duplicate)
        ELSE coll

\* The endpoint answers every chunk with the embedding of each of its texts.
FaithfulResponses(texts, batch_size) ==
    [c \in 1..NumChunks(Len(texts), batch_size) |->
        LET batch == ChunkOf(texts, batch_size, c)
        IN  Body([j \in 1..Len(batch) |-> EmbItem(ProviderEmbedding(batch[j]))])]

AddResumePoints ==
    /\ op = "idle"
    /\ \E resume_points \in ListsUpTo(DocPool, MaxStore),
          on_duplicate \in {"raise", "skip"} :
           /\ collection' = add_resume_points(
                               collection, resume_points,
                               FaithfulResponses(resume_points, DefaultBatchSize),
                               on_duplicate)
           /\ collection' # collection
           /\ UNCHANGED <<op, input, output, calls, raised, loop>>

(***************************************************************************)
(* VectorSearch.clear_collection (core/search.py).  The whole body runs    *)
(* inside one try whose handler prints the error and returns.              *)
(***************************************************************************)
GetCall == [name |-> "collection.get", n_results |-> 0]
DeleteCall == [name |-> "collection.delete", n_results |-> 0]

StoreOutcomes == {"ok", "raise"}

\* get_outcome and delete_outcome say whether collection.get and
\* collection.delete succeed or raise.
clear_collection(coll, get_outcome, delete_outcome) ==
    IF get_outcome = "raise"
    THEN [collection |-> coll, calls |-> <<GetCall>>]
    ELSE IF StoredIds(coll) = {}
    THEN [collection |-> coll, calls |-> <<GetCall>>]
    ELSE IF delete_outcome = "raise"
    THEN [collection |-> coll, calls |-> <<GetCall, DeleteCall>>]
    ELSE [collection |-> <<>>, calls |-> <<GetCall, DeleteCall>>]

ClearCollection ==
    /\ op = "idle"
    /\ \E get_outcome \in StoreOutcomes, delete_outcome \in StoreOutcomes :
         LET r == clear_collection(collection, get_outcome, delete_outcome)
         IN  /\ op' = "clear_collection"
             /\ input' = [get_outcome |-> get_outcome,
                          delete_outcome |-> delete_outcome]
             /\ output' = <<>>
             /\ calls' = r.calls
             /\ raised' = FALSE
             /\ collection' = r.collection
             /\ UNCHANGED loop

(***************************************************************************)
(* SelectionService (services/selection_service.py).                       *)
(***************************************************************************)
CharsPerLine == 70

\* Mutant: the empty text is counted like any other text.
estimate_latex_lines_without_empty_guard(text) ==
    Max(1, ((Len(text) + 4) \div CharsPerLine) + 1)

estimate_latex_lines(text) ==
    IF text = <<>> THEN 0
    ELSE Max(1, ((Len(text) + 4) \div CharsPerLine) + 1)

\* The texts of every length up to MaxLineChars (the estimate depends on the
\* length only).
LineTexts == {[i \in 1..n |-> "x"] : n \in 0..MaxLineChars}

EstimateLatexLines ==
    /\ op = "idle"
    /\ \E text \in LineTexts :
           /\ op' = "estimate_latex_lines"
           /\ input' = text
           /\ output' = estimate_latex_lines(text)
           /\ calls' = <<>>
           /\ raised' = FALSE
           /\ UNCHANGED <<collection, loop>>

Whitespace == {" ", "\t", "\n"}

\* set(text.lower().split())
WordSet(text) ==
    LET words == SplitOn(Lower(text), Whitespace)
    IN  {words[i] : i \in 1..Len(words)}

\* Mutant: the overlap is normalised by the words of the job description.
simple_keyword_match_by_job_words(bullet_text, job_description) ==
    LET job_words == WordSet(job_description)
        bullet_words == WordSet(bullet_text)
        matches == Cardinality(job_words \cap bullet_words)
    IN  IF Cardinality(job_words) = 0 THEN RatZero
        ELSE Rat(matches, Cardinality(job_words))

simple_keyword_match(bullet_text, job_description) ==
    LET job_words == WordSet(job_description)
        bullet_words == WordSet(bullet_text)
        matches == Cardinality(job_words \cap bullet_words)
        total_words == Cardinality(job_words \cup bullet_words)
    IN  IF total_words = 0 THEN RatZero ELSE Rat(matches, total_words)

\* np.dot of two vectors of the same length
RECURSIVE Dot(_, _)
Dot(u, v) ==
    IF u = <<>> THEN 0 ELSE Head(u) * Head(v) + Dot(Tail(u), Tail(v))

\* np.linalg.norm; the modelled vectors have integer norms
\* |v[1]| + ... + |v[n]|, which the norm of v does not exceed
RECURSIVE SumAbs(_)
SumAbs(v) ==
    IF v = <<>> THEN 0
    ELSE (IF Head(v) < 0 THEN 0 - Head(v) ELSE Head(v)) + SumAbs(Tail(v))

Norm(v) == LET n == Dot(v, v) IN CHOOSE k \in 0..SumAbs(v) : k * k = n

\* round(score, 3): to the nearest thousandth, halves to the even one
Round3(score) ==
    LET n == score[1] * 1000
        q == n \div score[2]
        rem == n - q * score[2]
    IN  Rat(IF 2 * rem > score[2] \/ (2 * rem = score[2] /\ q % 2 = 1)
            THEN q + 1 ELSE q, 1000)

\* Lines 220-235: the try block scoring one bullet against the job vector;
\* every exception raised inside falls back to the word overlap.
bullet_similarity(bullet_embedding, job_vector, job_norm, fallback) ==
    IF bullet_embedding = <<>> THEN fallback
    ELSE IF Norm(bullet_embedding) * job_norm = 0 THEN fallback
    ELSE IF Len(bullet_embedding) # Len(job_vector) THEN fallback
    ELSE Rat(Dot(bullet_embedding, job_vector),
             Norm(bullet_embedding) * job_norm)

BatchCall == [name |-> "generate_embeddings_batch", n_results |-> 0]

BulletTexts(bullets) == [i \in 1..Len(bullets) |-> bullets[i].text]

\* Lines 214-239: the loop appending one score per bullet.  job_norm is 0
\* when there is no usable job vector.
RECURSIVE score_loop(_, _, _, _, _, _)
score_loop(bullets, job_description, bullet_embeddings, job_embedding, job_norm, bullet_scores) ==
    LET idx == Len(bullet_scores) + 1
        fallback == simple_keyword_match(bullets[idx].text, job_description)
        score == IF /\ bullet_embeddings # <<>>
                    /\ job_norm # 0
                    /\ idx <= Len(bullet_embeddings)
                 THEN bullet_similarity(bullet_embeddings[idx], job_embedding,
                                        job_norm, fallback)
                 ELSE fallback
    IN  IF idx > Len(bullets) THEN bullet_scores
        ELSE score_loop(bullets, job_description, bullet_embeddings,
                        job_embedding, job_norm, Append(bullet_scores, score))

\* Lines 193-239: bullet_scores before sorting, with the calls made.
score_bullets(bullets, job_description, job_embedding, responses) ==
    LET available == job_embedding # <<>>
        bullet_embeddings ==
            IF available
            THEN generate_embeddings_batch(BulletTexts(bullets),
                                           DefaultBatchSize, responses)
            ELSE <<>>
        job_norm == IF available THEN Norm(job_embedding) ELSE 0
    IN  [scores |-> score_loop(bullets, job_description, bullet_embeddings,
                               job_embedding, job_norm, <<>>),
         calls |-> IF available THEN <<BatchCall>> ELSE <<>>]

\* Mutant: the first top_n bullets in input order.
top_bullets_unsorted(bullets, scores, top_n) ==
    Prefix([i \in 1..Len(bullets) |-> [bullet |-> bullets[i],
                                       score |-> scores[i]]], top_n)

\* Lines 241-245: sort by score, highest first, and take the first top_n.
top_bullets(bullets, scores, top_n) ==
    Prefix(SortDesc([i \in 1..Len(bullets) |->
                        [key |-> scores[i],
                         val |-> [bullet |-> bullets[i], score |-> scores[i]]]]),
           top_n)

SelectedBullet(bullet, score) ==
    [id |-> bullet.id, text |-> bullet.text,
     relevanceScore |-> Round3(score),
     lineCount |-> estimate_latex_lines(bullet.text)]

\* Lines 193-257: the function after its empty-list guard.
score_and_select(bullets, job_description, top_n, job_embedding, responses) ==
    LET scored == score_bullets(bullets, job_description, job_embedding,
                                responses)
        top == top_bullets(bullets, scored.scores, top_n)
    IN  [result |-> [j \in 1..Len(top) |->
                        SelectedBullet(top[j].bullet, top[j].score)],
         calls |-> scored.calls]

\* Mutant: the empty-list guard is left out.
select_without_empty_guard(bullets, job_description, top_n, job_embedding, responses) ==
    score_and_select(bullets, job_description, top_n, job_embedding, responses)

select_bullets_for_section(bullets, job_description, top_n, job_embedding, responses) ==
    IF bullets = <<>> THEN [result |-> <<>>, calls |-> <<>>]
    ELSE score_and_select(bullets, job_description, top_n, job_embedding,
                          responses)

BulletGo == <<"G", "o">>
BulletCD == <<"c", " ", "d">>
BulletEmpty == <<>>
BulletPool == {BulletGo, BulletCD, BulletEmpty}
JobGoC == <<"g", "o", " ", "c">>
JobEmpty == <<>>
JobLead == <<"l", "e", "a", "d">>
JobPool == {JobGoC, JobEmpty, JobLead}

\* generate_embedding's outcomes: None, an all-zero vector, the embedding.
JobEmbeddings(job_description) ==
    {<<>>, Vec(0, 0), ProviderEmbedding(job_description)}

\* What the endpoint can return for one bullet: its embedding, null, or a
\* vector of another dimension.
BulletItems(text) ==
    {EmbItem(ProviderEmbedding(text)), EmbItem(<<>>), EmbItem(<<1>>)}

\* The bodies answering texts item by item.
RECURSIVE ItemLists(_)
ItemLists(texts) ==
    IF texts = <<>> THEN {<<>>}
    ELSE {<<item>> \o rest : item \in BulletItems(Head(texts)),
                             rest \in ItemLists(Tail(texts))}

\* The outcomes of the one batch request of a section (none when no request
\* is made).
SectionResponses(texts, job_embedding) ==
    IF job_embedding = <<>> \/ texts = <<>> THEN {<<>>}
    ELSE {<<RequestError>>}
            \cup {<<Body(data)>> : data \in ItemLists(texts)}

SelectBulletsForSection ==
    /\ op = "idle"
    /\ \E texts \in ListsUpTo(BulletPool, MaxBullets),
          job_description \in JobPool, top_n \in 1..MaxTopN :
         \E job_embedding \in JobEmbeddings(job_description) :
           \E responses \in SectionResponses(texts, job_embedding) :
             LET bullets == [i \in 1..Len(texts) |-> [id |-> i, text |-> texts[i]]]
                 r == select_bullets_for_section(bullets, job_description, top_n,
                                                 job_embedding, responses)
             IN  /\ op' = "select_bullets_for_section"
                 /\ input' = [bullets |-> bullets,
                              job_description |-> job_description,
                              top_n |-> top_n, job_embedding |-> job_embedding,
                              responses |-> responses]
                 /\ output' = r.result
                 /\ calls' = r.calls
                 /\ raised' = FALSE
                 /\ UNCHANGED <<collection, loop>>

(***************************************************************************)
(* UnifiedOptimizer (services/unified_optimizer.py).                       *)
(*                                                                         *)
(* A JSON value is [t, v]: t its type and v a sequence holding its content *)
(* (the items of a list, the characters of a string, <<num, den>> of a     *)
(* number, nothing for null and for the empty object).  Absent stands for  *)
(* a key the object does not have.                                         *)
(***************************************************************************)
JNull == [t |-> "null", v |-> <<>>]
JList(items) == [t |-> "list", v |-> items]
JStr(chars) == [t |-> "str", v |-> chars]
JNum(r) == [t |-> "num", v |-> r]
JEmptyObject == [t |-> "object", v |-> <<>>]
Absent == [t |-> "absent", v |-> <<>>]

\* Mutant: every key is taken to be present.
HasKeyAlways(value) == TRUE

\* `key in data`
HasKey(value) == value.t # "absent"

\* Python truthiness of a JSON value
Truthy(value) ==
    CASE value.t \in {"null", "absent"} -> FALSE
      [] value.t = "num" -> value.v[1] # 0
      [] OTHER -> value.v # <<>>

EmptyOutcome ==
    [rankings |-> JList(<<>>), gaps |-> JList(<<>>),
     new_bullets |-> JList(<<>>)]

\* Mutant: `rewritten` is not required.
RankingValidWithoutRewritten(ranking) ==
    /\ ranking.original.t # "absent"
    /\ ranking.relevance_score.t = "num"

\* Lines 245-249: the three required fields; the range test of line 252
\* raises TypeError for a score that is no number.
RankingValid(ranking) ==
    /\ HasKey(ranking.original)
    /\ HasKey(ranking.rewritten)
    /\ HasKey(ranking.relevance_score)
    /\ ranking.relevance_score.t = "num"

\* Mutant: the score is kept as the provider sent it.
ClampScoreOmitted(score) == score

\* max(0.0, min(1.0, score))
ClampScore(score) ==
    IF RatLt(score, RatZero) THEN RatZero
    ELSE IF RatLt(RatOne, score) THEN RatOne
    ELSE score

\* Mutant: new_bullets is reset in strict mode whatever it holds.
strict_new_bullets_always_reset(new_bullets, mode) ==
    IF mode = "strict" THEN JList(<<>>) ELSE new_bullets

\* Lines 264-265: `if mode == "strict" and data.get("new_bullets")`
strict_new_bullets(new_bullets, mode) ==
    IF mode = "strict" /\ Truthy(new_bullets) THEN JList(<<>>)
    ELSE new_bullets

parse_response(response, mode) ==
    IF response.kind # "object" THEN EmptyOutcome
    ELSE IF ~HasKey(response.rankings) THEN EmptyOutcome
    ELSE IF response.rankings.t # "list" THEN EmptyOutcome
    ELSE IF \E i \in 1..Len(response.rankings.v) :
                ~RankingValid(response.rankings.v[i])
         THEN EmptyOutcome
    ELSE [rankings |->
             JList([i \in 1..Len(response.rankings.v) |->
                      [response.rankings.v[i] EXCEPT
                          !.relevance_score = JNum(ClampScore(@.v))]]),
          gaps |-> IF HasKey(response.gaps) THEN response.gaps
                   ELSE JList(<<>>),
          new_bullets |->
             strict_new_bullets(IF HasKey(response.new_bullets)
                                THEN response.new_bullets ELSE JList(<<>>),
                                mode)]

Step(name) == [name |-> name, n_results |-> 0]

\* Mutant: a failed provider call is repeated once and its failure swallowed.
optimize_resume_with_retry(mode, response) ==
    IF response.kind = "raise"
    THEN [result |-> [kind |-> "return", value |-> EmptyOutcome],
          calls |-> <<Step("_build_unified_prompt"), Step("_call_llm"),
                      Step("_call_llm")>>]
    ELSE [result |-> [kind |-> "return",
                      value |-> parse_response(response, mode)],
          calls |-> <<Step("_build_unified_prompt"), Step("_call_llm"),
                      Step("_parse_response")>>]

\* Lines 73-79: build the prompt, call the provider (its failure propagates),
\* parse.
optimize_resume(mode, response) ==
    IF response.kind = "raise"
    THEN [result |-> [kind |-> "raise"],
          calls |-> <<Step("_build_unified_prompt"), Step("_call_llm")>>]
    ELSE [result |-> [kind |-> "return",
                      value |-> parse_response(response, mode)],
          calls |-> <<Step("_build_unified_prompt"), Step("_call_llm"),
                      Step("_parse_response")>>]

Modes == {"strict", "creative", "balanced"}

TextX == JStr(<<"x">>)

ScorePool == {Rat(-1, 2), Rat(1, 2), Rat(3, 2)}

Ranking(original, rewritten, relevance_score) ==
    [original |-> original, rewritten |-> rewritten,
     relevance_score |-> relevance_score]

RankingPool ==
    {Ranking(TextX, TextX, JNum(score)) : score \in ScorePool}
        \cup {Ranking(Absent, TextX, JNum(Rat(1, 2))),
              Ranking(TextX, Absent, JNum(Rat(1, 2))),
              Ranking(TextX, TextX, Absent),
              Ranking(TextX, TextX, TextX)}

RankingsPool ==
    {Absent, JNull}
        \cup {JList(rankings) : rankings \in ListsUpTo(RankingPool, MaxRankings)}

GapsPool == {Absent, JList(<<>>), JList(<<TextX>>)}

NewBulletsPool ==
    {Absent, JNull, JList(<<>>), JList(<<TextX>>), JStr(<<>>), JEmptyObject,
     JNum(Rat(0, 1))}

\* What the provider call can produce: a failure, text that is no JSON, JSON
\* that is no object, a JSON object.
ProviderOutcomes ==
    {[kind |-> "raise"], [kind |-> "invalid"], [kind |-> "nondict"]}
        \cup [kind : {"object"}, rankings : RankingsPool, gaps : GapsPool,
              new_bullets : NewBulletsPool]

OptimizeResume ==
    /\ op = "idle"
    /\ \E mode \in Modes, response \in ProviderOutcomes :
           LET r == optimize_resume(mode, response)
           IN  /\ op' = "optimize_resume"
               /\ input' = [mode |-> mode, response |-> response]
               /\ output' = r.result
               /\ calls' = r.calls
               /\ raised' = (r.result.kind = "raise")
               /\ UNCHANGED <<collection, loop>>

(***************************************************************************)
(* Initial state and specifications.                                       *)
(***************************************************************************)
(***************************************************************************)
(* The event loop serving the endpoints of api/rag.py.  Every endpoint is  *)
(* an `async def` run on the loop's single thread; a coroutine gives the   *)
(* thread up only where it awaits something that suspends.  The external   *)
(* calls are requests.post calls, which suspend nothing: the thread stays  *)
(* with the request until the call has returned or raised.                 *)
(***************************************************************************)
Requests == 1..MaxRequests

\* The external calls a request of each endpoint makes, in order.
ExternalCalls(endpoint) ==
    CASE endpoint = "select" ->
            <<"generate_embedding", "generate_embeddings_batch">>
      [] endpoint = "optimize_flat" -> <<"generate_embedding", "_call_llm">>
      [] endpoint = "optimize" ->
            <<"generate_embedding", "generate_embeddings_batch", "_call_llm">>
      [] OTHER -> <<>>

Endpoints == {"select", "optimize_flat", "optimize"}

LoopAtStart ==
    [running |-> 0,
     requests |-> [r \in Requests |->
                     [phase |-> "pending", endpoint |-> "none", step |-> 0]]]

\* The loop hands its thread to a request that has arrived.
StartRequest ==
    /\ loop.running = 0
    /\ \E r \in Requests, endpoint \in Endpoints :
         /\ loop.requests[r].phase = "pending"
         /\ loop' = [running |-> r,
                     requests |-> [loop.requests EXCEPT ![r] =
                         [phase |-> "running", endpoint |-> endpoint,
                          step |-> 0]]]
    /\ UNCHANGED <<op, input, output, calls, raised, collection>>

\* The running request enters requests.post; the thread stays with it.
ExternalCall ==
    /\ loop.running # 0
    /\ LET r == loop.running
           request == loop.requests[r]
       IN  /\ request.phase = "running"
           /\ request.step < Len(ExternalCalls(request.endpoint))
           /\ loop' = [loop EXCEPT !.requests[r].phase = "in_call"]
    /\ UNCHANGED <<op, input, output, calls, raised, collection>>

\* The pending external call returns or raises (a timeout included).
CallReturns ==
    /\ loop.running # 0
    /\ LET r == loop.running
           request == loop.requests[r]
       IN  /\ request.phase = "in_call"
           /\ loop' = [loop EXCEPT !.requests[r] =
                         [phase |-> "running", endpoint |-> request.endpoint,
                          step |-> request.step + 1]]
    /\ UNCHANGED <<op, input, output, calls, raised, collection>>

\* The running request has made its calls and its response is sent.
FinishRequest ==
    /\ loop.running # 0
    /\ LET r == loop.running
           request == loop.requests[r]
       IN  /\ request.phase = "running"
           /\ request.step = Len(ExternalCalls(request.endpoint))
           /\ loop' = [running |-> 0,
                       requests |-> [loop.requests EXCEPT ![r].phase = "done"]]
    /\ UNCHANGED <<op, input, output, calls, raised, collection>>

Init ==
    /\ op = "idle"
    /\ input = <<>>
    /\ output = <<>>
    /\ calls = <<>>
    /\ raised = FALSE
    /\ collection = <<>>
    /\ loop = LoopAtStart

\* The result has been handed to the caller; nothing of the request is kept
\* (no session state), only the persisted collection.
Return ==
    /\ op # "idle"
    /\ op' = "idle"
    /\ input' = <<>>
    /\ output' = <<>>
    /\ calls' = <<>>
    /\ raised' = FALSE
    /\ UNCHANGED <<collection, loop>>

NextLoop == StartRequest \/ ExternalCall \/ CallReturns \/ FinishRequest

SpecLoop == Init /\ [][NextLoop]_vars

\* The loop runs whatever it can run; nothing makes an external call return.
SpecLoopFair ==
    /\ SpecLoop
    /\ WF_vars(StartRequest)
    /\ WF_vars(ExternalCall)
    /\ WF_vars(FinishRequest)

NextKeyword == ComputeKeywordScore \/ ExtractKeywords \/ Return

SpecKeyword == Init /\ [][NextKeyword]_vars

NextBatch == GenerateEmbeddingsBatch \/ Return

NextRank == AddResumePoints \/ SearchSimilar \/ Return

SpecRank == Init /\ [][NextRank]_vars

NextStore == AddResumePoints \/ ClearCollection \/ Return

SpecStore == Init /\ [][NextStore]_vars

SpecBatch == Init /\ [][NextBatch]_vars

NextSelect == SelectBulletsForSection \/ Return

SpecSelect == Init /\ [][NextSelect]_vars

\* Both ranked lists: hybrid search and section selection.  The service
\* starts on the persisted collection, which is empty or holds the resume
\* points of an earlier run.
StoredPoints(order) ==
    [i \in 1..MaxStore |-> order[((i - 1) % Len(order)) + 1]]

PersistedStores ==
    {<<>>}
        \cup {add_resume_points(<<>>, StoredPoints(order),
                                FaithfulResponses(StoredPoints(order),
                                                  DefaultBatchSize), "raise") :
                 order \in {<<DocBoth, DocOne, DocNone>>,
                            <<DocNone, DocOne, DocBoth>>}}

InitRanked ==
    /\ op = "idle"
    /\ input = <<>>
    /\ output = <<>>
    /\ calls = <<>>
    /\ raised = FALSE
    /\ collection \in PersistedStores
    /\ loop = LoopAtStart

NextRanked == SearchSimilar \/ SelectBulletsForSection \/ Return

SpecRanked == InitRanked /\ [][NextRanked]_vars

NextLines == EstimateLatexLines \/ SelectBulletsForSection \/ Return

SpecLines == Init /\ [][NextLines]_vars

NextOptimize == OptimizeResume \/ Return

SpecOptimize == Init /\ [][NextOptimize]_vars

(***************************************************************************)
(* C7: compute_keyword_score returns (number of keyword entries whose      *)
(* lower-cased form is a substring of the lower-cased text) divided by     *)
(* len(keywords); 0.0 for an empty list; always within [0, 1].             *)
(***************************************************************************)
KeywordScoreIsMatchedFraction ==
    op = "compute_keyword_score" =>
        LET kws == input.keywords
            hits == {i \in 1..Len(kws) :
                        IsSubstring(Lower(kws[i]), Lower(input.bullet))}
        IN  /\ kws = <<>> => output = RatZero
            /\ kws # <<>> => RatEq(output, Rat(Cardinality(hits), Len(kws)))
            /\ InUnitInterval(output)

\* One of two keywords matches only after lower-casing the text: score 1/2.
KeywordScoreHalfWitness ==
    /\ op = "compute_keyword_score"
    /\ input.bullet = <<"A">>
    /\ input.keywords = <<<<"a">>, <<"b">>>>
    /\ RatEq(output, Rat(1, 2))

(***************************************************************************)
(* C2: generate_embeddings_batch returns a list of len(texts) vectors for  *)
(* every input list, batch size and behaviour of the endpoint.             *)
(***************************************************************************)
BatchLengthEqualsInput ==
    op = "generate_embeddings_batch" => Len(output) = Len(input.texts)

\* Two chunks of one text; the first answers with one item too many, the
\* second fails.
BatchLengthWitness ==
    /\ op = "generate_embeddings_batch"
    /\ Len(input.texts) = 2
    /\ input.batch_size = 1
    /\ input.responses[1].kind = "data"
    /\ Len(input.responses[1].data) = 2
    /\ \A j \in 1..2 : input.responses[1].data[j].tag = "embedding"
    /\ input.responses[2].kind = "error"
    /\ Len(output) = 2

(***************************************************************************)
(* C3: the vector at output position i is the vector the endpoint returned *)
(* for texts[i] or a zero vector, and a zero vector only when the chunk    *)
(* holding texts[i] failed; a failed chunk leaves the positions of the     *)
(* other chunks alone.                                                     *)
(***************************************************************************)
ChunkIndex(i, batch_size) == ((i - 1) \div batch_size) + 1
ChunkOffset(i, batch_size) == ((i - 1) % batch_size) + 1

\* A chunk failed when its request raised or its body was malformed (fewer
\* items than texts, an item that is no object or carries no embedding).
ChunkFailed(response, batch) ==
    \/ response.kind = "error"
    \/ Len(response.data) < Len(batch)
    \/ \E j \in 1..Len(response.data) : response.data[j].tag # "embedding"

ReturnedFor(i, batch_size, responses) ==
    LET r == responses[ChunkIndex(i, batch_size)]
        j == ChunkOffset(i, batch_size)
    IN  IF r.kind = "data" /\ j <= Len(r.data) /\ r.data[j].tag = "embedding"
        THEN {r.data[j].embedding}
        ELSE {}

BatchOrderAndIsolation ==
    op = "generate_embeddings_batch" =>
        \A i \in 1..Len(input.texts) :
            LET r == input.responses[ChunkIndex(i, input.batch_size)]
            IN  /\ i <= Len(output)
                /\ \/ output[i] \in ReturnedFor(i, input.batch_size,
                                                input.responses)
                   \/ /\ output[i] = ZeroVector
                      /\ ChunkFailed(r, ChunkOf(input.texts, input.batch_size,
                                        ChunkIndex(i, input.batch_size)))

HybridScoresInUnitInterval ==
    (op = "search_similar" /\ input.use_hybrid) =>
        \A j \in 1..Len(output) : InUnitInterval(output[j][2])

(***************************************************************************)
(* C6: hybrid ranking queries the store for min(2 * top_k, count())        *)
(* candidates, scores each as 0.7 * (1 - distance) + 0.3 * keyword score   *)
(* and returns the top_k by that score.                                    *)
(***************************************************************************)
HybridCase ==
    op = "search_similar" /\ input.use_hybrid /\ input.query_embedding # <<>>

HybridWindow == Min(2 * input.top_k, Len(collection))

HybridCandidates == StoreQuery(collection, input.dist, HybridWindow)

\* The blended score of a candidate at distance d with the given document.
Blended(document, d, kws) ==
    LET hits == Cardinality({i \in 1..Len(kws) :
                    IsSubstring(Lower(kws[i]), Lower(document))})
    IN  IF kws = <<>> THEN Rat(7 * (DistScale - d), 10 * DistScale)
        ELSE Rat(7 * (DistScale - d) * Len(kws) + 3 * hits * DistScale,
                 10 * DistScale * Len(kws))

\* The blended scores of the store's answer, in the order of the answer.
RECURSIVE BlendedScores(_, _, _)
BlendedScores(cands, kws, j) ==
    IF j > Len(cands.documents) THEN <<>>
    ELSE <<Blended(cands.documents[j], cands.distances[j], kws)>>
         \o BlendedScores(cands, kws, j + 1)

\* Position of candidate j in descending order of blended score b, equal
\* scores in candidate order.
BlendedPosition(b, j) ==
    1 + Cardinality({i \in 1..Len(b) : RatLt(b[j], b[i])})
      + Cardinality({i \in 1..(j - 1) : RatEq(b[i], b[j])})

HybridReturnsTopBlended(cands, b) ==
    /\ QueryCall(HybridWindow) \in {calls[i] : i \in 1..Len(calls)}
    /\ Cardinality({i \in 1..Len(calls) :
                        calls[i].name = "collection.query"}) = 1
    /\ Len(output) = Min(input.top_k, Len(b))
    /\ \A j \in 1..Len(b) :
          LET pos == BlendedPosition(b, j)
          IN  pos <= input.top_k =>
                 /\ output[pos][1] = cands.documents[j]
                 /\ RatEq(output[pos][2], b[j])

\* The claim as stated: an outsider of the semantic top_k is returned as soon
\* as its blended score exceeds that of one semantic top_k member.
HybridPromotesOverAnyMember ==
    HybridCase =>
        LET cands == HybridCandidates
            b == BlendedScores(cands, extract_keywords(input.job_description), 1)
        IN  /\ HybridReturnsTopBlended(cands, b)
            /\ \A j \in (input.top_k + 1)..Len(b) :
                  (\E m \in 1..input.top_k : RatLt(b[m], b[j]))
                     => BlendedPosition(b, j) <= input.top_k

\* Amended: an outsider is returned exactly when fewer than top_k candidates
\* precede it in blended order, which is the case whenever its blended score
\* exceeds that of every semantic top_k member.
HybridPromotesOverAllMembers ==
    HybridCase =>
        LET cands == HybridCandidates
            b == BlendedScores(cands, extract_keywords(input.job_description), 1)
        IN  /\ HybridReturnsTopBlended(cands, b)
            /\ \A j \in (input.top_k + 1)..Len(b) :
                  (\A m \in 1..input.top_k : RatLt(b[m], b[j]))
                     => BlendedPosition(b, j) <= input.top_k

\* A candidate outside the semantic top 2 of a window of 4 is returned.
HybridPromotionWitness ==
    /\ HybridCase
    /\ input.top_k = 2
    /\ Len(collection) = 4
    /\ LET cands == HybridCandidates
           b == BlendedScores(cands, extract_keywords(input.job_description), 1)
       IN  \E j \in 3..4 :
              /\ BlendedPosition(b, j) <= 2
              /\ cands.distances[1] < cands.distances[j]

(***************************************************************************)
(* C8: selecting from a section of n bullets with limit top_n returns      *)
(* exactly min(top_n, n) bullets, and no bullet left out scores higher     *)
(* than a returned one.                                                    *)
(***************************************************************************)
SectionScores ==
    score_bullets(input.bullets, input.job_description, input.job_embedding,
                  input.responses).scores

ReturnedIds == {output[j].id : j \in 1..Len(output)}

SelectReturnsTopN ==
    op = "select_bullets_for_section" =>
        LET scores == SectionScores
        IN  /\ Len(output) = Min(input.top_n, Len(input.bullets))
            /\ \A j \in 1..Len(output) :
                 /\ output[j].id \in 1..Len(input.bullets)
                 /\ output[j].relevanceScore = Round3(scores[output[j].id])
                 /\ \A i \in 1..Len(input.bullets) :
                      i \notin ReturnedIds =>
                          RatLe(scores[i], scores[output[j].id])

\* Two bullets and room for one: the second one is returned, because it
\* scores higher than the first.
SelectTopNWitness ==
    /\ op = "select_bullets_for_section"
    /\ Len(input.bullets) = 2
    /\ input.top_n = 1
    /\ Len(output) = 1
    /\ output[1].id = 2
    /\ RatLt(SectionScores[1], SectionScores[2])

(***************************************************************************)
(* C9: selecting from an empty bullet list returns the empty list and      *)
(* makes no batch-embedding call.                                          *)
(***************************************************************************)
SelectEmptyMakesNoCall ==
    (op = "select_bullets_for_section" /\ input.bullets = <<>>) =>
        /\ output = <<>>
        /\ \A c \in 1..Len(calls) : calls[c] # BatchCall

\* An empty section selected while the job embedding is available.
SelectEmptyWitness ==
    /\ op = "select_bullets_for_section"
    /\ input.bullets = <<>>
    /\ input.job_embedding = ProviderEmbedding(JobGoC)
    /\ output = <<>>
    /\ calls = <<>>

(***************************************************************************)
(* C10: selection always returns min(top_n, n) bullets.  Without a job     *)
(* embedding every bullet is scored by the Jaccard word overlap and no     *)
(* batch-embedding call is made; with one, exactly the bullets whose       *)
(* embedding is missing or zero-norm are scored by Jaccard and the others  *)
(* by cosine similarity.                                                   *)
(***************************************************************************)
\* |words(a) /\ words(b)| / |words(a) \/ words(b)|, 0 for an empty union
JaccardOverlap(a, b) ==
    LET both == WordSet(a) \cap WordSet(b)
        any == WordSet(a) \cup WordSet(b)
    IN  IF any = {} THEN RatZero ELSE Rat(Cardinality(both), Cardinality(any))

IsZeroNorm(v) == \A k \in 1..Len(v) : v[k] = 0

\* The embedding the batch request delivered for bullet i.
ItemEmbedding(i) ==
    IF input.responses[1].kind = "error" THEN ZeroVector
    ELSE input.responses[1].data[i].embedding

ScoredByJaccard(selected) ==
    selected.relevanceScore =
        Round3(JaccardOverlap(selected.text, input.job_description))

ScoredByCosine(selected) ==
    LET e == ItemEmbedding(selected.id)
        q == input.job_embedding
    IN  /\ Len(e) = Len(q)
        /\ ~IsZeroNorm(e)
        /\ ~IsZeroNorm(q)
        /\ selected.relevanceScore =
              Round3(Rat(Dot(e, q), Norm(e) * Norm(q)))

SelectFallbackNoEmbedding ==
    /\ Len(output) = Min(input.top_n, Len(input.bullets))
    /\ input.job_embedding = <<>> =>
          /\ calls = <<>>
          /\ \A j \in 1..Len(output) : ScoredByJaccard(output[j])

SelectFallbackOnlyForItemEmbedding ==
    op = "select_bullets_for_section" =>
        /\ SelectFallbackNoEmbedding
        /\ input.job_embedding # <<>> =>
              \A j \in 1..Len(output) :
                  LET e == ItemEmbedding(output[j].id)
                  IN  IF e = <<>> \/ IsZeroNorm(e)
                      THEN ScoredByJaccard(output[j])
                      ELSE ScoredByCosine(output[j])

\* C10 as the code has it: with a job embedding the batch call is made once
\* for a non-empty section, and a bullet is scored by Jaccard exactly when
\* its cosine cannot be computed: its embedding is missing, zero-norm or of
\* another dimension than the job embedding, or the job embedding itself is
\* zero-norm.
SelectFallbackWhenCosineFails ==
    op = "select_bullets_for_section" =>
        /\ SelectFallbackNoEmbedding
        /\ (input.job_embedding # <<>> /\ input.bullets # <<>>) =>
              /\ calls = <<BatchCall>>
              /\ \A j \in 1..Len(output) :
                    LET e == ItemEmbedding(output[j].id)
                    IN  IF \/ e = <<>>
                           \/ IsZeroNorm(e)
                           \/ IsZeroNorm(input.job_embedding)
                           \/ Len(e) # Len(input.job_embedding)
                        THEN ScoredByJaccard(output[j])
                        ELSE ScoredByCosine(output[j])

\* Two bullets against a usable job embedding: "c d" came back without an
\* embedding and is scored 1/3 by word overlap, "Go" is scored 3/5 by cosine.
SelectFallbackWitness ==
    /\ op = "select_bullets_for_section"
    /\ input.job_description = JobGoC
    /\ input.job_embedding = ProviderEmbedding(JobGoC)
    /\ BulletTexts(input.bullets) = <<BulletCD, BulletGo>>
    /\ input.responses[1].kind = "data"
    /\ ItemEmbedding(1) = <<>>
    /\ ItemEmbedding(2) = ProviderEmbedding(BulletGo)
    /\ Len(output) = 2
    /\ output[1].id = 2
    /\ output[1].relevanceScore = Rat(600, 1000)
    /\ output[2].id = 1
    /\ output[2].relevanceScore = Rat(333, 1000)

(***************************************************************************)
(* C1: in strict mode optimize_resume returns new_bullets = [] for every   *)
(* provider response that parses and validates.                            *)
(***************************************************************************)
ParsesAndValidates(response) ==
    /\ response.kind = "object"
    /\ response.rankings.t = "list"
    /\ \A i \in 1..Len(response.rankings.v) :
          LET ranking == response.rankings.v[i]
          IN  /\ ranking.original.t # "absent"
              /\ ranking.rewritten.t # "absent"
              /\ ranking.relevance_score.t = "num"

StrictReturnsNoNewBullets ==
    (/\ op = "optimize_resume"
     /\ input.mode = "strict"
     /\ output.kind = "return"
     /\ ParsesAndValidates(input.response)) =>
        /\ output.value.new_bullets.t = "list"
        /\ output.value.new_bullets.v = <<>>

(***************************************************************************)
(* C11: every selected bullet carries a relevanceScore within [0, 1],      *)
(* whether it was scored by cosine similarity or by word overlap.          *)
(***************************************************************************)
SelectScoresInUnitInterval ==
    op = "select_bullets_for_section" =>
        \A j \in 1..Len(output) : InUnitInterval(output[j].relevanceScore)

(***************************************************************************)
(* C12: provider text that is no JSON, lacks 'rankings' or holds a ranking *)
(* entry without original, rewritten or relevance_score yields the empty   *)
(* outcome, without raising and with a single provider call.               *)
(***************************************************************************)
IsEmptyList(value) == value.t = "list" /\ value.v = <<>>

IsEmptyOutcome(value) ==
    /\ IsEmptyList(value.rankings)
    /\ IsEmptyList(value.gaps)
    /\ IsEmptyList(value.new_bullets)

RankingLacksField(ranking) ==
    \/ ranking.original.t = "absent"
    \/ ranking.rewritten.t = "absent"
    \/ ranking.relevance_score.t = "absent"

Malformed(response) ==
    \/ response.kind = "invalid"
    \/ /\ response.kind = "object"
       /\ \/ response.rankings.t = "absent"
          \/ /\ response.rankings.t = "list"
             /\ \E i \in 1..Len(response.rankings.v) :
                   RankingLacksField(response.rankings.v[i])

ProviderCalls == {c \in 1..Len(calls) : calls[c].name = "_call_llm"}

MalformedGivesEmptyOutcome ==
    (op = "optimize_resume" /\ Malformed(input.response)) =>
        /\ output.kind = "return"
        /\ IsEmptyOutcome(output.value)
        /\ Cardinality(ProviderCalls) = 1

\* A complete ranking followed by one without `rewritten`, with gaps and new
\* bullets in the response: everything is dropped.
MalformedWitness ==
    /\ op = "optimize_resume"
    /\ input.mode = "creative"
    /\ input.response.kind = "object"
    /\ input.response.rankings.t = "list"
    /\ Len(input.response.rankings.v) = 2
    /\ ~RankingLacksField(input.response.rankings.v[1])
    /\ input.response.rankings.v[2].rewritten.t = "absent"
    /\ input.response.gaps.v # <<>>
    /\ input.response.new_bullets.v # <<>>
    /\ output.kind = "return"
    /\ IsEmptyOutcome(output.value)

(***************************************************************************)
(* C13: optimize_resume builds the prompt, calls the provider once and     *)
(* parses, in that order; when the call fails the error propagates to the  *)
(* caller with no parse step and no second call.                           *)
(***************************************************************************)
CallNames == [c \in 1..Len(calls) |-> calls[c].name]

OptimizeStepsInOrder ==
    op = "optimize_resume" =>
        IF input.response.kind = "raise"
        THEN /\ output.kind = "raise"
             /\ CallNames = <<"_build_unified_prompt", "_call_llm">>
        ELSE /\ output.kind = "return"
             /\ CallNames = <<"_build_unified_prompt", "_call_llm",
                              "_parse_response">>

\* The provider call failed: the caller gets the error after two steps.
OptimizeFailureWitness ==
    /\ op = "optimize_resume"
    /\ input.response.kind = "raise"
    /\ output.kind = "raise"
    /\ Len(calls) = 2

(***************************************************************************)
(* C14: every relevance_score of a returned outcome lies in [0.0, 1.0]; a  *)
(* score below 0.0 becomes 0.0, one above 1.0 becomes 1.0, one in range is *)
(* unchanged, and an out-of-range score does not reject the outcome.       *)
(***************************************************************************)
AllRankingsUsable(response) ==
    /\ response.kind = "object"
    /\ response.rankings.t = "list"
    /\ \A i \in 1..Len(response.rankings.v) :
          /\ ~RankingLacksField(response.rankings.v[i])
          /\ response.rankings.v[i].relevance_score.t = "num"

ScoresClampedNotRejected ==
    (op = "optimize_resume" /\ output.kind = "return") =>
        /\ output.value.rankings.t = "list"
        /\ \A i \in 1..Len(output.value.rankings.v) :
              /\ output.value.rankings.v[i].relevance_score.t = "num"
              /\ InUnitInterval(output.value.rankings.v[i].relevance_score.v)
        /\ AllRankingsUsable(input.response) =>
              /\ Len(output.value.rankings.v) = Len(input.response.rankings.v)
              /\ \A i \in 1..Len(input.response.rankings.v) :
                    LET sent == input.response.rankings.v[i].relevance_score.v
                        kept == output.value.rankings.v[i].relevance_score.v
                    IN  /\ RatLt(sent, RatZero) => RatEq(kept, RatZero)
                        /\ RatLt(RatOne, sent) => RatEq(kept, RatOne)
                        /\ InUnitInterval(sent) => kept = sent

\* Scores 3/2 and -1/2 were sent; the outcome keeps both entries with 1 and 0.
ScoresClampedWitness ==
    /\ op = "optimize_resume"
    /\ output.kind = "return"
    /\ input.response.kind = "object"
    /\ input.response.rankings.t = "list"
    /\ Len(input.response.rankings.v) = 2
    /\ input.response.rankings.v[1].relevance_score = JNum(Rat(3, 2))
    /\ input.response.rankings.v[2].relevance_score = JNum(Rat(-1, 2))
    /\ Len(output.value.rankings.v) = 2
    /\ RatEq(output.value.rankings.v[1].relevance_score.v, RatOne)
    /\ RatEq(output.value.rankings.v[2].relevance_score.v, RatZero)

(***************************************************************************)
(* C15: whenever the provider call returns, the outcome has the fields     *)
(* rankings, gaps and new_bullets; a response omitting gaps or new_bullets *)
(* gets [] for the omitted field and keeps its rankings.                   *)
(***************************************************************************)
OutcomeHasAllFields ==
    (op = "optimize_resume" /\ input.response.kind # "raise") =>
        /\ output.kind = "return"
        /\ output.value.rankings.t # "absent"
        /\ output.value.gaps.t # "absent"
        /\ output.value.new_bullets.t # "absent"
        /\ AllRankingsUsable(input.response) =>
              /\ Len(output.value.rankings.v) = Len(input.response.rankings.v)
              /\ \A i \in 1..Len(input.response.rankings.v) :
                    /\ output.value.rankings.v[i].original =
                          input.response.rankings.v[i].original
                    /\ output.value.rankings.v[i].rewritten =
                          input.response.rankings.v[i].rewritten
              /\ input.response.gaps.t = "absent" =>
                    IsEmptyList(output.value.gaps)
              /\ input.response.new_bullets.t = "absent" =>
                    IsEmptyList(output.value.new_bullets)

\* One usable ranking and neither gaps nor new_bullets in the response.
OutcomeDefaultsWitness ==
    /\ op = "optimize_resume"
    /\ input.response.kind = "object"
    /\ AllRankingsUsable(input.response)
    /\ Len(input.response.rankings.v) = 1
    /\ input.response.gaps.t = "absent"
    /\ input.response.new_bullets.t = "absent"
    /\ output.kind = "return"
    /\ Len(output.value.rankings.v) = 1
    /\ IsEmptyList(output.value.gaps)
    /\ IsEmptyList(output.value.new_bullets)

(***************************************************************************)
(* C16: for every mode other than "creative" the returned new_bullets is   *)
(* [], whatever the provider response.                                     *)
(***************************************************************************)
\* Stated for the responses whose new_bullets is a JSON list.
NewBulletsOnlyWhenCreative ==
    (/\ op = "optimize_resume"
     /\ output.kind = "return"
     /\ input.mode # "creative"
     /\ input.response.kind = "object"
     /\ input.response.new_bullets.t = "list") =>
        IsEmptyList(output.value.new_bullets)


(***************************************************************************)
(* C17, C18: searches that cannot reach, or find nothing in, the store.    *)
(***************************************************************************)
StoreCallNames == {"collection.count", "collection.query"}

SearchWithoutEmbedding ==
    op = "search_similar" /\ input.query_embedding = <<>>

\* C17: when the query embedding cannot be generated, semantic and hybrid
\* search both return the empty list, do not raise, and issue no call to the
\* vector store.
NoEmbeddingReturnsEmptyWithoutQuery ==
    SearchWithoutEmbedding =>
        /\ output = <<>>
        /\ ~raised
        /\ \A i \in 1..Len(calls) : calls[i].name \notin StoreCallNames

\* A hybrid search over a filled store whose query embedding failed.
NoEmbeddingHybridWitness ==
    /\ SearchWithoutEmbedding
    /\ input.use_hybrid
    /\ Count(collection) = MaxStore
    /\ output = <<>>

HybridOverEmptyStore ==
    /\ op = "search_similar"
    /\ input.use_hybrid
    /\ input.query_embedding # <<>>
    /\ Count(collection) = 0

\* C18: when the vector store holds no items, hybrid search computes
\* candidate_k = 0 and returns the empty list without error, for every top_k.
EmptyStoreHybridReturnsEmpty ==
    HybridOverEmptyStore =>
        /\ calls = <<EmbeddingCall, CountCall, QueryCall(0)>>
        /\ output = <<>>
        /\ ~raised


(***************************************************************************)
(* C19, C20: the persisted collection under add and clear.                 *)
(***************************************************************************)
\* The step is a call add_resume_points(resume_points) that changed the store.
AddStep(resume_points, on_duplicate) ==
    /\ op = "idle"
    /\ op' = "idle"
    /\ collection' # collection
    /\ collection' = add_resume_points(
                         collection, resume_points,
                         FaithfulResponses(resume_points, DefaultBatchSize),
                         on_duplicate)

AppendedAfter(old, new, resume_points) ==
    /\ Len(new) = Len(old) + Len(resume_points)
    /\ \A i \in 1..Len(old) : new[i] = old[i]
    /\ \A i \in 1..Len(resume_points) :
         /\ new[Len(old) + i].document = resume_points[i]
         /\ new[Len(old) + i].embedding = ProviderEmbedding(resume_points[i])
         /\ new[Len(old) + i].id \notin StoredIds(old)

\* C19: between clears the collection is append-only: an add makes count()
\* grow by the number of items passed, keeps every earlier item with its own
\* text and vector, and gives the new items identifiers no earlier item has.
AddsAppendEveryItem ==
    [][\A resume_points \in ListsUpTo(DocPool, MaxStore),
          on_duplicate \in {"raise", "skip"} :
            AddStep(resume_points, on_duplicate) =>
                AppendedAfter(collection, collection', resume_points)]_vars

\* C20: when clear returns the collection holds no items, whatever it held
\* before and whatever the store's get and delete calls did.
ClearLeavesNoItems ==
    op = "clear_collection" => Count(collection) = 0


(***************************************************************************)
(* C23: the line count of a selected bullet.                               *)
(***************************************************************************)
SelectedSection == op = "select_bullets_for_section"

EstimatedLines == op = "estimate_latex_lines"

\* max(1, (len(text) + 4) // chars_per_line + 1) with chars_per_line = 70
LineFormula(text) == Max(1, ((Len(text) + 4) \div 70) + 1)

\* C23 as stated: every selected bullet carries
\* lineCount = max(1, (len(text) + 4) // 70 + 1), the empty text included.
LineCountIsMaxFormula ==
    /\ SelectedSection =>
         \A i \in 1..Len(output) :
             output[i].lineCount = LineFormula(output[i].text)
    /\ EstimatedLines => output = LineFormula(input)

\* C23: a selected bullet with the empty text carries lineCount 0, and every
\* other selected bullet carries max(1, (len(text) + 4) // 70 + 1), which is
\* what estimate_latex_lines returns for its text.
LineCountZeroForEmptyText ==
    /\ SelectedSection =>
         \A i \in 1..Len(output) :
             output[i].lineCount
                 = IF Len(output[i].text) = 0 THEN 0
                   ELSE LineFormula(output[i].text)
    /\ EstimatedLines =>
         output = IF Len(input) = 0 THEN 0 ELSE LineFormula(input)

\* A section returning the empty text next to another text.
LineCountWitness ==
    /\ SelectedSection
    /\ Len(output) = 2
    /\ \E i \in 1..Len(output) :
         output[i].text = <<>> /\ output[i].lineCount = 0
    /\ \E i \in 1..Len(output) :
         output[i].text # <<>> /\ output[i].lineCount = 1


(***************************************************************************)
(* C22: extract_keywords yields a set that depends on the text only.       *)
(***************************************************************************)
ExtractedKeywords == op = "extract_keywords"

\* The terms the text holds: catalog terms matched as whole words in any
\* case, action verbs occurring anywhere, and capitalized words that are no
\* common words, all in lower case.
KeywordsHeldBy(text) ==
    LET words == SplitOn(text, NonWordChars)
    IN  {t \in TECH_TERMS : TechTermFound(t, text)}
            \cup {v \in ACTION_VERBS : IsSubstring(v, Lower(text))}
            \cup {Lower(words[i]) : i \in {j \in 1..Len(words) :
                     IsCapitalizedTerm(words[j]) /\ words[j] \notin COMMON_WORDS}}

\* C22: the keywords returned for a text are a set fixed by the text (every
\* call on that text returns it), no keyword occurs twice, every keyword is
\* lower-case, and the empty text yields no keyword.
ExtractKeywordsIsDeterministicSet ==
    ExtractedKeywords =>
        /\ {output[i] : i \in 1..Len(output)} = KeywordsHeldBy(input)
        /\ \A i, j \in 1..Len(output) : output[i] = output[j] => i = j
        /\ \A i \in 1..Len(output) : Lower(output[i]) = output[i]
        /\ input = <<>> => output = <<>>

\* "Git git": the term is matched twice by the catalog and once as a
\* capitalized word, and is returned once.
ExtractKeywordsWitness ==
    /\ ExtractedKeywords
    /\ input = TextGitGit
    /\ output = << <<"g", "i", "t">> >>


(***************************************************************************)
(* C24: results of equal score keep their input order.                     *)
(***************************************************************************)
HybridRanked ==
    /\ op = "search_similar"
    /\ input.use_hybrid
    /\ input.query_embedding # <<>>
    /\ ~raised

\* The documents the vector store returned to the hybrid search, nearest
\* first.
CandidateDocuments ==
    StoreQuery(collection, input.dist,
               candidate_k(input.top_k, Count(collection))).documents

\* a stands before b somewhere in seq
StandsBefore(seq, a, b) ==
    \E p, q \in 1..Len(seq) : p < q /\ seq[p] = a /\ seq[q] = b

\* Hybrid results of equal score stand in the order of the candidate list.
HybridTiesInCandidateOrder ==
    HybridRanked =>
        \A i, j \in 1..Len(output) :
            (i < j /\ output[i][1] # output[j][1]
                   /\ RatEq(output[i][2], output[j][2]))
                => StandsBefore(CandidateDocuments, output[i][1], output[j][1])

\* C24 as stated: hybrid results of equal score stand in the order of the
\* candidate list, and selected bullets of equal score (the relevanceScore
\* they carry) stand in the order of the section's bullet list.
TiesKeepInputOrder ==
    /\ HybridTiesInCandidateOrder
    /\ SelectedSection =>
         \A i, j \in 1..Len(output) :
             (i < j /\ RatEq(output[i].relevanceScore, output[j].relevanceScore))
                 => output[i].id < output[j].id

\* C24: hybrid results of equal score stand in the order of the candidate
\* list, and selected bullets whose scores are equal before rounding stand
\* in the order of the section's bullet list.
UnroundedTiesKeepInputOrder ==
    /\ HybridTiesInCandidateOrder
    /\ SelectedSection =>
         LET scores == SectionScores
         IN  \A i, j \in 1..Len(output) :
                 (i < j /\ RatEq(scores[output[i].id], scores[output[j].id]))
                     => output[i].id < output[j].id

\* Two different bullets with the same score, returned in input order.
TiedBulletsWitness ==
    /\ SelectedSection
    /\ Len(output) = 2
    /\ output[1].text # output[2].text
    /\ RatEq(SectionScores[1], SectionScores[2])
    /\ output[1].id = 1
    /\ output[2].id = 2


(***************************************************************************)
(* C25: the requests of generate_embeddings_batch.                         *)
(***************************************************************************)
BatchEmbedded == op = "generate_embeddings_batch"

\* ceil(n / b) for b >= 1
CeilDiv(n, b) == IF n = 0 THEN 0 ELSE ((n - 1) \div b) + 1

\* C25: n texts with batch size b cause exactly ceil(n / b) requests (none
\* for n = 0), chunk after chunk in increasing order, each request started
\* only after the previous one has returned or failed, and a failed request
\* does not keep the later chunks from being requested.
BatchRequestsAreSequential ==
    BatchEmbedded =>
        LET n == Len(input.texts)
            b == input.batch_size
            requests == CeilDiv(n, b)
        IN  /\ Len(calls) = 2 * requests
            /\ \A c \in 1..requests :
                 /\ calls[2 * c - 1].event = "post"
                 /\ calls[2 * c - 1].chunk = c
                 /\ calls[2 * c - 1].batch
                        = SubSeq(input.texts, (c - 1) * b + 1, Min(c * b, n))
                 /\ calls[2 * c].event
                        = (IF input.responses[c].kind = "error" THEN "failed"
                           ELSE "returned")
                 /\ calls[2 * c].chunk = c

\* Two chunks of one text each: the first request fails and the second is
\* still made.
BatchRequestsWitness ==
    /\ BatchEmbedded
    /\ Len(input.texts) = 2
    /\ input.batch_size = 1
    /\ Len(calls) = 4
    /\ calls[2].event = "failed"
    /\ calls[3].event = "post"
    /\ calls[3].chunk = 2


(***************************************************************************)
(* C21: what a pending external call blocks.                               *)
(***************************************************************************)
InCall(r) == loop.requests[r].phase = "in_call"

Pending(r) == loop.requests[r].phase = "pending"

Done(r) == loop.requests[r].phase = "done"

\* C21: an external call that hangs inside one request blocks only that
\* request: while request 1 is in its call, request 2, which has arrived, is
\* started and runs to completion.
HangingCallBlocksOnlyItsRequest ==
    (InCall(1) /\ Pending(2)) ~> (Done(2) \/ ~InCall(1))

(***************************************************************************)
(* Structured resumes: SelectionService.select_bullets                     *)
(* (selection_service.py).  A resume holds four lists of sections; a       *)
(* section is [id, bullets] and a bullet [id, text].                       *)
(***************************************************************************)
SectionKinds == <<"experiences", "education", "projects", "customSections">>

KindSet == {SectionKinds[k] : k \in 1..Len(SectionKinds)}

\* _generate_job_embedding (lines 162-170): the embedding, or None when the
\* generator raised or returned nothing.
generate_job_embedding(outcome) ==
    IF outcome.kind = "raise" THEN <<>> ELSE outcome.value

RECURSIVE Stripped(_)
Stripped(selected) ==
    IF selected = <<>> THEN <<>>
    ELSE <<[id |-> Head(selected).id,
            selectedBullets |-> Head(selected).selectedBullets]>>
             \o Stripped(Tail(selected))

RECURSIVE SectionCalls(_)
SectionCalls(selected) ==
    IF selected = <<>> THEN <<>>
    ELSE Head(selected).calls \o SectionCalls(Tail(selected))

\* The entry appended for a section: its id and what was selected for it.
SectionEntry(id, r) ==
    [id |-> id, selectedBullets |-> r.result, calls |-> r.calls]

RECURSIVE select_sections_skipping_empty(_, _, _, _, _, _)
\* Mutant: a section without bullets gets no entry.
select_sections_skipping_empty(sections, job_description, top_n, job_embedding, responses, selected) ==
    IF sections = <<>> THEN selected
    ELSE select_sections_skipping_empty(
             Tail(sections), job_description, top_n, job_embedding,
             Tail(responses),
             IF Head(sections).bullets = <<>> THEN selected
             ELSE Append(selected,
                         SectionEntry(Head(sections).id,
                             select_bullets_for_section(
                                 Head(sections).bullets, job_description,
                                 top_n, job_embedding, Head(responses)))))

RECURSIVE select_sections(_, _, _, _, _, _)
\* One of the four loops of lines 79-152: each section of the list is given
\* to _select_bullets_for_section and appended with its own id.
select_sections(sections, job_description, top_n, job_embedding, responses, selected) ==
    IF sections = <<>> THEN selected
    ELSE select_sections(Tail(sections), job_description, top_n,
                         job_embedding, Tail(responses),
                         Append(selected,
                                SectionEntry(Head(sections).id,
                                    select_bullets_for_section(
                                        Head(sections).bullets,
                                        job_description, top_n, job_embedding,
                                        Head(responses)))))

\* Lines 154-159: SelectedResume(experiences=..., education=..., ...), with
\* the calls made: the job embedding first, then the sections in order.
SelectedResume(a, b, c, d) ==
    [result |-> [experiences |-> Stripped(a), education |-> Stripped(b),
                 projects |-> Stripped(c), customSections |-> Stripped(d)],
     calls |-> <<EmbeddingCall>> \o SectionCalls(a) \o SectionCalls(b)
                   \o SectionCalls(c) \o SectionCalls(d)]

\* Lines 76-160.  counts holds bullets_per_experience, _education, _project
\* and _custom under the name of the list each applies to.
select_bullets(resume, job_description, counts, embedding_outcome, responses) ==
    SelectedResume(
        select_sections(resume["experiences"], job_description,
                        counts["experiences"],
                        generate_job_embedding(embedding_outcome),
                        responses["experiences"], <<>>),
        select_sections(resume["education"], job_description,
                        counts["education"],
                        generate_job_embedding(embedding_outcome),
                        responses["education"], <<>>),
        select_sections(resume["projects"], job_description,
                        counts["projects"],
                        generate_job_embedding(embedding_outcome),
                        responses["projects"], <<>>),
        select_sections(resume["customSections"], job_description,
                        counts["customSections"],
                        generate_job_embedding(embedding_outcome),
                        responses["customSections"], <<>>))

\* Bullet texts of the sections enumerated.
SectionTexts == {<<>>, <<BulletGo, BulletCD>>, <<BulletCD, BulletGo>>}

SectionChoices == [kind : 1..Len(SectionKinds), texts : SectionTexts]

\* Sections listed kind by kind.
KindOrdered(choices) ==
    \A i \in 1..Len(choices) - 1 : choices[i].kind <= choices[i + 1].kind

RECURSIVE BulletsFrom(_, _)
BulletsFrom(texts, bullets) ==
    IF Len(bullets) = Len(texts) THEN bullets
    ELSE BulletsFrom(texts, Append(bullets, [id |-> Len(bullets) + 1,
                                             text |-> texts[Len(bullets) + 1]]))

BulletsOf(texts) == BulletsFrom(texts, <<>>)

\* The sections of one kind; ids are the client's and need not follow the
\* order of the list.
RECURSIVE SectionsFrom(_, _)
SectionsFrom(mine, sections) ==
    IF Len(sections) = Len(mine) THEN sections
    ELSE SectionsFrom(mine,
             Append(sections,
                    [id |-> Len(mine) - Len(sections),
                     bullets |-> BulletsOf(mine[Len(sections) + 1].texts)]))

SectionsOfKind(choices, k) ==
    SectionsFrom(SelectSeq(choices, LAMBDA c : c.kind = k), <<>>)

ResumeOf(choices) ==
    [experiences |-> SectionsOfKind(choices, 1),
     education |-> SectionsOfKind(choices, 2),
     projects |-> SectionsOfKind(choices, 3),
     customSections |-> SectionsOfKind(choices, 4)]

Resumes ==
    {ResumeOf(choices) :
        choices \in {c \in ListsUpTo(SectionChoices, MaxSections) : KindOrdered(c)}}

\* The request's defaults (schemas/rag.py), and one bullet per section.
DefaultCounts ==
    [experiences |-> 3, education |-> 2, projects |-> 2, customSections |-> 5]

OnePerSection ==
    [experiences |-> 1, education |-> 1, projects |-> 1, customSections |-> 1]

CountsPool == {DefaultCounts, OnePerSection}

\* The generator raises, returns None, or returns the embedding.
EmbeddingOutcomes(job_description) ==
    {[kind |-> "raise", value |-> <<>>]}
        \cup {[kind |-> "value", value |-> v] :
                 v \in {<<>>, ProviderEmbedding(job_description)}}

\* The batch request of one section fails or answers every bullet; no
\* request is made without bullets or without a job embedding.
RECURSIVE AnsweredItems(_)
AnsweredItems(bullets) ==
    IF bullets = <<>> THEN <<>>
    ELSE <<EmbItem(ProviderEmbedding(Head(bullets).text))>>
             \o AnsweredItems(Tail(bullets))

SectionResponseSamples(bullets, job_embedding) ==
    IF bullets = <<>> \/ job_embedding = <<>> THEN {<<>>}
    ELSE {<<RequestError>>, <<Body(AnsweredItems(bullets))>>}

RECURSIVE SectionListResponses(_, _)
SectionListResponses(sections, job_embedding) ==
    IF sections = <<>> THEN {<<>>}
    ELSE {<<r>> \o rest :
            r \in SectionResponseSamples(Head(sections).bullets, job_embedding),
            rest \in SectionListResponses(Tail(sections), job_embedding)}

ResumeResponses(resume, job_embedding) ==
    {[experiences |-> a, education |-> b, projects |-> c, customSections |-> d] :
       a \in SectionListResponses(resume["experiences"], job_embedding),
       b \in SectionListResponses(resume["education"], job_embedding),
       c \in SectionListResponses(resume["projects"], job_embedding),
       d \in SectionListResponses(resume["customSections"], job_embedding)}

\* A service call returned r for the arguments and outcomes in.
Returned(name, in, r) ==
    /\ op' = name
    /\ input' = in
    /\ output' = r.result
    /\ calls' = r.calls
    /\ raised' = FALSE
    /\ UNCHANGED <<collection, loop>>

SelectBullets ==
    /\ op = "idle"
    /\ \E resume \in Resumes, counts \in CountsPool,
          embedding_outcome \in EmbeddingOutcomes(JobGoC) :
         \E responses \in ResumeResponses(resume,
                              generate_job_embedding(embedding_outcome)) :
           Returned("select_bullets",
                    [resume |-> resume, job_description |-> JobGoC,
                     counts |-> counts,
                     embedding_outcome |-> embedding_outcome,
                     responses |-> responses],
                    select_bullets(resume, JobGoC, counts, embedding_outcome,
                                   responses))

NextResume == SelectBullets \/ Return

SpecResume == Init /\ [][NextResume]_vars

(***************************************************************************)
(* C30: selection works section by section and leaves items as they are:   *)
(* the output has one entry per input section, in the input order and with *)
(* the same section id; every selected bullet has the id and the unchanged *)
(* text of a bullet of its input section, no bullet is selected twice, and *)
(* the query embedding is generated exactly once per request.              *)
(***************************************************************************)
SelectedResumeHeld == op = "select_bullets"

EmbeddingCallCount ==
    Cardinality({c \in 1..Len(calls) : calls[c].name = "generate_embedding"})

SectionUntouched(section, entry) ==
    /\ entry.id = section.id
    /\ \A j \in 1..Len(entry.selectedBullets) :
          \E i \in 1..Len(section.bullets) :
              /\ section.bullets[i].id = entry.selectedBullets[j].id
              /\ section.bullets[i].text = entry.selectedBullets[j].text
    /\ \A j, k \in 1..Len(entry.selectedBullets) :
          entry.selectedBullets[j].id = entry.selectedBullets[k].id => j = k

SelectionKeepsSectionsAndItems ==
    SelectedResumeHeld =>
        /\ \A kind \in KindSet :
              /\ Len(output[kind]) = Len(input.resume[kind])
              /\ \A i \in 1..Len(output[kind]) :
                    /\ SectionUntouched(input.resume[kind][i], output[kind][i])
                    /\ output[kind][i].selectedBullets =
                         select_bullets_for_section(
                             input.resume[kind][i].bullets,
                             input.job_description, input.counts[kind],
                             generate_job_embedding(input.embedding_outcome),
                             input.responses[kind][i]).result
        /\ EmbeddingCallCount = 1

\* Two experiences with different ids, the first with more bullets than the
\* limit, the second with none.
SelectionWitness ==
    /\ SelectedResumeHeld
    /\ Len(input.resume["experiences"]) = 2
    /\ Len(input.resume["experiences"][1].bullets) = 2
    /\ input.resume["experiences"][2].bullets = <<>>
    /\ input.counts["experiences"] = 1
    /\ Len(output["experiences"][1].selectedBullets) = 1
    /\ output["experiences"][1].id = 2
    /\ output["experiences"][2].id = 1

(***************************************************************************)
(* Rewriting: OptimizationService._rewrite_bullets                         *)
(* (optimization_service.py, lines 151-212).                               *)
(***************************************************************************)
\* The call of lines 176-181 with the mode it passes.
OptimizerCall(mode) ==
    [name |-> "unified_optimizer.optimize_resume", n_results |-> 0,
     mode |-> mode]

\* Lines 190-194: the first ranking whose original is the bullet's text, 0
\* when there is none.
FirstMatch(rankings, text) ==
    LET hits == {k \in 1..Len(rankings) :
                    /\ rankings[k].original.t = "str"
                    /\ rankings[k].original.v = text}
    IN  IF hits = {} THEN 0 ELSE CHOOSE k \in hits : \A h \in hits : k <= h

\* ranking.get("rewritten", bullet.text)
RewrittenValue(ranking, text) ==
    IF HasKey(ranking.rewritten) THEN ranking.rewritten ELSE JStr(text)

\* Lines 184-204 for one bullet: text, original, rewritten and reasoning as
\* JSON values; SelectedBullet(...) validates them afterwards.
RewrittenFields(bullet, rankings) ==
    LET k == FirstMatch(rankings, bullet.text)
        value == IF k = 0 THEN JStr(bullet.text)
                 ELSE RewrittenValue(rankings[k], bullet.text)
    IN  [id |-> bullet.id, text |-> value,
         relevanceScore |-> bullet.relevanceScore,
         lineCount |-> bullet.lineCount,
         original |-> bullet.text,
         reasoning |-> IF k = 0 THEN JNull ELSE JStr(<<>>)]

\* text: str of SelectedBullet: a value that is no string fails validation.
TextValid(fields) == fields.text.t = "str"

Rewritten(fields) ==
    [id |-> fields.id, text |-> fields.text.v,
     relevanceScore |-> fields.relevanceScore, lineCount |-> fields.lineCount,
     original |-> fields.original, rewritten |-> fields.text.v,
     reasoning |-> fields.reasoning]

\* Mutant: a bullet without a matching ranking is left out.
rewrite_loop_dropping_unmatched(selected_bullets, rankings) ==
    LET all == [i \in 1..Len(selected_bullets) |->
                   RewrittenFields(selected_bullets[i], rankings)]
        kept == SelectSeq(all, LAMBDA f : f.reasoning # JNull)
    IN  IF \E i \in 1..Len(all) : ~TextValid(all[i])
        THEN [kind |-> "raise", value |-> <<>>]
        ELSE [kind |-> "return",
              value |-> [i \in 1..Len(kept) |-> Rewritten(kept[i])]]

\* Lines 184-206: the loop over the selected bullets; building a
\* SelectedBullet raises when its text is no string.
rewrite_loop(selected_bullets, rankings) ==
    LET all == [i \in 1..Len(selected_bullets) |->
                   RewrittenFields(selected_bullets[i], rankings)]
    IN  IF \E i \in 1..Len(all) : ~TextValid(all[i])
        THEN [kind |-> "raise", value |-> <<>>]
        ELSE [kind |-> "return",
              value |-> [i \in 1..Len(all) |-> Rewritten(all[i])]]

\* Lines 183-212 once the optimizer answered or raised (o): every exception
\* of the try block, the optimizer's or the loop's, returns selected_bullets.
rewritten_or_original(selected_bullets, o, r) ==
    [result |-> IF o.result.kind = "raise" \/ r.kind = "raise"
                THEN selected_bullets ELSE r.value,
     calls |-> <<OptimizerCall("strict")>> \o o.calls]

ReturnedRankingsOf(o) ==
    IF o.result.kind = "raise" THEN <<>>
    ELSE IF o.result.value.rankings.t = "list" THEN o.result.value.rankings.v
    ELSE <<>>

rewrite_with(selected_bullets, o) ==
    rewritten_or_original(selected_bullets, o,
                          rewrite_loop(selected_bullets, ReturnedRankingsOf(o)))

\* Mutant: the optimizer is called for an empty list too.
rewrite_bullets_without_empty_guard(selected_bullets, response) ==
    rewrite_with(selected_bullets, optimize_resume("strict", response))

\* Lines 168-181: nothing is called for an empty list; otherwise the
\* optimizer is called once, in strict mode.
rewrite_bullets(selected_bullets, response) ==
    IF selected_bullets = <<>> THEN [result |-> <<>>, calls |-> <<>>]
    ELSE rewrite_with(selected_bullets, optimize_resume("strict", response))

\* The provider's rewrite of a text.
Reworded(text) == text \o <<"!">>

RankedAs(text, rewritten) == Ranking(JStr(text), rewritten, JNum(Rat(1, 2)))

\* Rankings the provider can send for these texts: a rewrite of one of
\* them, a null rewrite, a ranking of a text that was not sent.
RewriteRankingPool(texts) ==
    {RankedAs(texts[i], JStr(Reworded(texts[i]))) : i \in 1..Len(texts)}
        \cup {RankedAs(texts[i], JNull) : i \in {1} \cap DOMAIN texts}
        \cup {RankedAs(<<"x">>, TextX)}

RewriteOutcomes(texts) ==
    {[kind |-> "raise"], [kind |-> "invalid"]}
        \cup [kind : {"object"},
              rankings : {JList(rankings) :
                            rankings \in ListsUpTo(RewriteRankingPool(texts),
                                                   MaxRankings)},
              gaps : {JList(<<>>)}, new_bullets : {Absent}]

\* Selected bullets as a selection returns them.
SelectedOf(texts) ==
    [i \in 1..Len(texts) |->
        SelectedBullet([id |-> i, text |-> texts[i]], Rat(i, 4))]

RewriteBullets ==
    /\ op = "idle"
    /\ \E texts \in ListsUpTo(BulletPool, MaxBullets) :
         \E response \in RewriteOutcomes(texts) :
           /\ texts = <<>> => response.kind = "raise"
           /\ Returned("_rewrite_bullets",
                       [selected_bullets |-> SelectedOf(texts),
                        response |-> response],
                       rewrite_bullets(SelectedOf(texts), response))

NextRewrite == RewriteBullets \/ Return

SpecRewrite == Init /\ [][NextRewrite]_vars

(***************************************************************************)
(* C27: rewriting a section's selected bullets returns a list of the same  *)
(* length with the same ids, relevance scores and line counts in the same  *)
(* order, whether the optimizer ranks every bullet, only some, or raises;  *)
(* a bullet with no ranking of its text, and every bullet when the         *)
(* optimizer raises, keeps its original text.                              *)
(***************************************************************************)
RewriteHeld == op = "_rewrite_bullets"

OptimizerRaises == input.response.kind = "raise"

\* The rankings the optimizer returns for the provider's response.
ReturnedRankings ==
    LET o == optimize_resume("strict", input.response)
    IN  IF o.result.kind = "raise" THEN <<>> ELSE o.result.value.rankings.v

HasRanking(text) ==
    \E k \in 1..Len(ReturnedRankings) :
        ReturnedRankings[k].original = JStr(text)

RewriteKeepsShape ==
    RewriteHeld =>
        /\ Len(output) = Len(input.selected_bullets)
        /\ \A i \in 1..Len(output) :
              /\ output[i].id = input.selected_bullets[i].id
              /\ output[i].relevanceScore = input.selected_bullets[i].relevanceScore
              /\ output[i].lineCount = input.selected_bullets[i].lineCount
              /\ (OptimizerRaises \/ ~HasRanking(input.selected_bullets[i].text))
                    => output[i].text = input.selected_bullets[i].text

\* Two bullets, a ranking for the first only: the first is reworded, the
\* second keeps its text.
PartialRewriteWitness ==
    /\ RewriteHeld
    /\ Len(input.selected_bullets) = 2
    /\ HasRanking(input.selected_bullets[1].text)
    /\ ~HasRanking(input.selected_bullets[2].text)
    /\ output[1].text = Reworded(input.selected_bullets[1].text)
    /\ output[2].text = input.selected_bullets[2].text

\* Every bullet is ranked and reworded.
FullRewriteWitness ==
    /\ RewriteHeld
    /\ Len(input.selected_bullets) = 2
    /\ \A i \in 1..2 : output[i].text = Reworded(input.selected_bullets[i].text)

\* The optimizer raises and the bullets come back as they were.
FailedRewriteWitness ==
    /\ RewriteHeld
    /\ OptimizerRaises
    /\ Len(input.selected_bullets) = 2
    /\ output = input.selected_bullets

(***************************************************************************)
(* The structured optimize path: OptimizationService.optimize_resume       *)
(* (optimization_service.py, lines 31-149).                                *)
(***************************************************************************)
RECURSIVE rewrite_sections(_, _, _)
\* One of the four loops of lines 73-141: the selected bullets of each
\* section are rewritten and the section is rebuilt with its id.
rewrite_sections(sections, rewrites, rewritten) ==
    IF sections = <<>> THEN rewritten
    ELSE rewrite_sections(Tail(sections), Tail(rewrites),
                          Append(rewritten,
                                 SectionEntry(Head(sections).id,
                                     rewrite_bullets(
                                         Head(sections).selectedBullets,
                                         Head(rewrites)))))

\* Lines 143-148: the SelectedResume of the rewritten sections, with the
\* calls of the selection (s) and of the rewrites after them.
OptimizedResume(s, a, b, c, d) ==
    [result |-> [experiences |-> Stripped(a), education |-> Stripped(b),
                 projects |-> Stripped(c), customSections |-> Stripped(d)],
     calls |-> s.calls \o SectionCalls(a) \o SectionCalls(b)
                   \o SectionCalls(c) \o SectionCalls(d)]

\* Lines 72-141: the four rewrite loops over the selected resume.
rewrite_selected(s, rewrites) ==
    OptimizedResume(s,
        rewrite_sections(s.result["experiences"], rewrites["experiences"], <<>>),
        rewrite_sections(s.result["education"], rewrites["education"], <<>>),
        rewrite_sections(s.result["projects"], rewrites["projects"], <<>>),
        rewrite_sections(s.result["customSections"], rewrites["customSections"], <<>>))

\* Lines 60-149.  optimization_mode is accepted and never read.
optimize_structured_resume(resume, job_description, counts, optimization_mode, embedding_outcome, responses, rewrites) ==
    rewrite_selected(select_bullets(resume, job_description, counts,
                                    embedding_outcome, responses),
                     rewrites)

\* The batch request of every section answers every bullet.
RECURSIVE AnsweredList(_, _)
AnsweredList(sections, job_embedding) ==
    IF sections = <<>> THEN <<>>
    ELSE <<IF Head(sections).bullets = <<>> \/ job_embedding = <<>> THEN <<>>
           ELSE <<Body(AnsweredItems(Head(sections).bullets))>>>>
             \o AnsweredList(Tail(sections), job_embedding)

AnsweredResponses(resume, job_embedding) ==
    [experiences |-> AnsweredList(resume["experiences"], job_embedding),
     education |-> AnsweredList(resume["education"], job_embedding),
     projects |-> AnsweredList(resume["projects"], job_embedding),
     customSections |-> AnsweredList(resume["customSections"], job_embedding)]

\* The provider fails, or rewords the first bullet of the section.
SectionRewriteSamples(bullets) ==
    IF bullets = <<>> THEN {[kind |-> "raise"]}
    ELSE {[kind |-> "raise"],
          [kind |-> "object",
           rankings |-> JList(<<RankedAs(bullets[1].text,
                                         JStr(Reworded(bullets[1].text)))>>),
           gaps |-> JList(<<>>), new_bullets |-> Absent]}

RECURSIVE SectionListRewrites(_)
SectionListRewrites(sections) ==
    IF sections = <<>> THEN {<<>>}
    ELSE {<<r>> \o rest : r \in SectionRewriteSamples(Head(sections).bullets),
                          rest \in SectionListRewrites(Tail(sections))}

ResumeRewrites(resume) ==
    {[experiences |-> a, education |-> b, projects |-> c, customSections |-> d] :
       a \in SectionListRewrites(resume["experiences"]),
       b \in SectionListRewrites(resume["education"]),
       c \in SectionListRewrites(resume["projects"]),
       d \in SectionListRewrites(resume["customSections"])}

RequestModes == {"strict", "creative"}

OptimizeStructuredResume ==
    /\ op = "idle"
    /\ \E resume \in Resumes, counts \in CountsPool,
          optimization_mode \in RequestModes :
         \E rewrites \in ResumeRewrites(resume) :
           Returned("OptimizationService.optimize_resume",
                    [resume |-> resume, job_description |-> JobGoC,
                     counts |-> counts,
                     optimization_mode |-> optimization_mode,
                     embedding_outcome |->
                         [kind |-> "value", value |-> ProviderEmbedding(JobGoC)],
                     responses |->
                         AnsweredResponses(resume, ProviderEmbedding(JobGoC)),
                     rewrites |-> rewrites],
                    optimize_structured_resume(resume, JobGoC, counts,
                        optimization_mode,
                        [kind |-> "value", value |-> ProviderEmbedding(JobGoC)],
                        AnsweredResponses(resume, ProviderEmbedding(JobGoC)),
                        rewrites))

NextStructured == OptimizeStructuredResume \/ Return

SpecStructured == Init /\ [][NextStructured]_vars

(***************************************************************************)
(* C29: in the structured optimize path every rewrite call to the          *)
(* optimizer is made in strict mode whatever optimization_mode the request *)
(* carries, one call per section with at least one selected bullet and     *)
(* none for a section with no selected bullets, and all section selection  *)
(* completes before the first rewrite call.                                *)
(***************************************************************************)
StructuredHeld == op = "OptimizationService.optimize_resume"

RewriteCallIndexes ==
    {c \in 1..Len(calls) : calls[c].name = "unified_optimizer.optimize_resume"}

SelectionCallIndexes ==
    {c \in 1..Len(calls) :
        calls[c].name \in {"generate_embedding", "generate_embeddings_batch"}}

SectionsWithSelectedBullets ==
    {<<kind, i>> \in KindSet \X (1..MaxSections + 1) :
        /\ i <= Len(output[kind])
        /\ output[kind][i].selectedBullets # <<>>}

RewritesAreStrictAndPerSection ==
    StructuredHeld =>
        /\ \A c \in RewriteCallIndexes : calls[c].mode = "strict"
        /\ Cardinality(RewriteCallIndexes) = Cardinality(SectionsWithSelectedBullets)
        /\ \A s \in SelectionCallIndexes : \A c \in RewriteCallIndexes : s < c

\* A creative request with one section holding selected bullets and one
\* holding none: one strict call.
StrictRewriteWitness ==
    /\ StructuredHeld
    /\ input.optimization_mode = "creative"
    /\ Len(output["experiences"]) = 2
    /\ output["experiences"][1].selectedBullets # <<>>
    /\ output["experiences"][2].selectedBullets = <<>>
    /\ Cardinality(RewriteCallIndexes) = 1
    /\ \A c \in RewriteCallIndexes : calls[c].mode = "strict"
    /\ SelectionCallIndexes # {}

(***************************************************************************)
(* The flat pipeline: RAGService.process_rag_request (rag_service.py).     *)
(***************************************************************************)
\* Lines 155-166: the results, and nothing when the search raised.
caught(s) == [result |-> IF s.raised THEN <<>> ELSE s.result, calls |-> s.calls]

\* _retrieve_points (lines 141-166): the search's results; nothing when the
\* search returned nothing or raised.
retrieve_points(coll, dist, job_description, top_k, use_hybrid, query_embedding, store_strict) ==
    caught(search_similar(coll, dist, job_description, top_k, use_hybrid,
                          query_embedding, store_strict))

RAGResponse(retrieved_points, rewritten_points, gaps, new_bullet_suggestions) ==
    [kind |-> "return",
     value |-> [retrieved_points |-> retrieved_points,
                rewritten_points |-> rewritten_points, gaps |-> gaps,
                new_bullet_suggestions |-> new_bullet_suggestions]]

\* similarity_scores.get(original_text, ranking.get("relevance_score", 0.0)):
\* the dict keeps the score of the last tuple of a text.
SimilarityScore(retrieved_data, ranking) ==
    LET hits == {j \in 1..Len(retrieved_data) :
                    /\ ranking.original.t = "str"
                    /\ retrieved_data[j][1] = ranking.original.v}
    IN  IF hits # {}
        THEN retrieved_data[CHOOSE j \in hits : \A h \in hits : h <= j][2]
        ELSE IF HasKey(ranking.relevance_score) THEN ranking.relevance_score.v
        ELSE RatZero

\* Lines 108-113: RewrittenPoint(original, rewritten, similarity_score,
\* reasoning); both texts are declared str.
RewrittenPoint(retrieved_data, ranking) ==
    [original |-> ranking.original.v, rewritten |-> ranking.rewritten.v,
     similarity_score |-> Round3(SimilarityScore(retrieved_data, ranking)),
     reasoning |-> <<>>]

PointValid(ranking) ==
    ranking.original.t = "str" /\ ranking.rewritten.t = "str"

\* gaps: List[str] and new_bullet_suggestions: List[str] of RAGResponse
ListValid(value) ==
    /\ value.t = "list"
    /\ \A i \in 1..Len(value.v) : value.v[i].t = "str"

Strings(value) == [i \in 1..Len(value.v) |-> value.v[i].v]

\* Lines 73-139 once the optimizer answered or raised (o).  An exception of
\* the optimizer is answered with the retrieved points alone; an exception
\* raised while the response is built leaves the function.
respond_with(retrieved_data, optimization_mode, o) ==
    LET retrieved_points == [j \in 1..Len(retrieved_data) |-> retrieved_data[j][1]]
        made == <<OptimizerCall(optimization_mode)>> \o o.calls
        rankings == o.result.value.rankings.v
        gaps == o.result.value.gaps
        new_bullet_suggestions ==
            IF optimization_mode # "creative" THEN JList(<<>>)
            ELSE o.result.value.new_bullets
    IN  IF o.result.kind = "raise"
        THEN [result |-> RAGResponse(retrieved_points, <<>>, <<>>, <<>>),
              calls |-> made]
        ELSE IF \/ \E k \in 1..Len(rankings) : ~PointValid(rankings[k])
                \/ ~ListValid(gaps)
                \/ ~ListValid(new_bullet_suggestions)
        THEN [result |-> [kind |-> "raise", value |-> <<>>], calls |-> made]
        ELSE [result |->
                 RAGResponse(retrieved_points,
                             [k \in 1..Len(rankings) |->
                                 RewrittenPoint(retrieved_data, rankings[k])],
                             Strings(gaps), Strings(new_bullet_suggestions)),
              calls |-> made]

\* Lines 58-139: the pipeline once points were retrieved.
optimize_retrieved(retrieved_data, optimization_mode, response) ==
    respond_with(retrieved_data, optimization_mode,
                 optimize_resume(optimization_mode, response))

After(calls_before, rest) ==
    [result |-> rest.result, calls |-> calls_before \o rest.calls]

\* Mutant: the optimizer is called whatever was retrieved.
answer_retrieved_without_empty_check(r, optimization_mode, response) ==
    After(r.calls, optimize_retrieved(r.result, optimization_mode, response))

\* Lines 46-139 once _retrieve_points returned r.
answer_retrieved(r, optimization_mode, response) ==
    IF r.result = <<>>
    THEN [result |-> RAGResponse(<<>>, <<>>, <<>>, <<>>), calls |-> r.calls]
    ELSE After(r.calls, optimize_retrieved(r.result, optimization_mode, response))

\* Lines 41-139.
process_rag_request(coll, dist, job_description, top_k, use_hybrid, query_embedding, store_strict, optimization_mode, response) ==
    answer_retrieved(retrieve_points(coll, dist, job_description, top_k,
                                     use_hybrid, query_embedding, store_strict),
                     optimization_mode, response)

\* What the provider answers to a flat request: a failure, text that is no
\* JSON, or rankings of a stored document and of a text that was not sent,
\* with a gap and with new bullets or null in their place.
FlatOutcomes ==
    {[kind |-> "raise"], [kind |-> "invalid"]}
        \cup [kind : {"object"},
              rankings : {JList(<<RankedAs(DocBoth, JStr(Reworded(DocBoth))),
                                  RankedAs(<<"x">>, TextX)>>)},
              gaps : {JList(<<TextX>>)},
              new_bullets : {JList(<<TextX>>), JNull}]

\* Outcomes that cannot happen or that nothing reads are left out: a store
\* that would have rejected a query it accepts, a provider answer when the
\* provider is not called.
OutcomesRead(s, store_strict, response) ==
    /\ store_strict => s.raised
    /\ (s.raised \/ s.result = <<>>) => response.kind = "raise"

ReturnedOrRaised(name, in, r) ==
    /\ op' = name
    /\ input' = in
    /\ output' = r.result
    /\ calls' = r.calls
    /\ raised' = (r.result.kind = "raise")
    /\ UNCHANGED <<collection, loop>>

QueryEmbedding(embedded, job_description) ==
    IF embedded THEN ProviderEmbedding(job_description) ELSE <<>>

ProcessRagRequest ==
    /\ op = "idle"
    /\ \E job_description \in QueryPool, top_k \in 1..MaxTopK,
          use_hybrid \in BOOLEAN, embedded \in BOOLEAN,
          store_strict \in BOOLEAN, optimization_mode \in Modes,
          response \in FlatOutcomes :
         \E dist \in [StoredEmbeddings(collection) -> Distances] :
           /\ embedded \/ \A e \in DOMAIN dist : dist[e] = 0
           /\ OutcomesRead(search_similar(collection, dist, job_description,
                               top_k, use_hybrid,
                               QueryEmbedding(embedded, job_description),
                               store_strict),
                           store_strict, response)
           /\ ReturnedOrRaised("process_rag_request",
                  [job_description |-> job_description, top_k |-> top_k,
                   use_hybrid |-> use_hybrid,
                   query_embedding |-> QueryEmbedding(embedded, job_description),
                   dist |-> dist, store_strict |-> store_strict,
                   optimization_mode |-> optimization_mode,
                   response |-> response],
                  process_rag_request(collection, dist, job_description, top_k,
                      use_hybrid, QueryEmbedding(embedded, job_description),
                      store_strict, optimization_mode, response))

NextFlat == ProcessRagRequest \/ Return

SpecFlat == InitRanked /\ [][NextFlat]_vars

(***************************************************************************)
(* C28: in the flat pipeline no text-generation call is made and the       *)
(* response has empty retrieved_points and rewritten_points when retrieval *)
(* yields no points (empty store, failed query embedding, vector-search    *)
(* error); when it yields points, exactly one text-generation call is      *)
(* made, after retrieval has completed.                                    *)
(***************************************************************************)
FlatHeld == op = "process_rag_request"

\* What the vector search did for the request held.
FlatSearch ==
    search_similar(collection, input.dist, input.job_description, input.top_k,
                   input.use_hybrid, input.query_embedding, input.store_strict)

NoPointsRetrieved == FlatSearch.raised \/ FlatSearch.result = <<>>

GenerationCallIndexes == {c \in 1..Len(calls) : calls[c].name = "_call_llm"}

RetrievalCallIndexes ==
    {c \in 1..Len(calls) :
        calls[c].name \in {"generate_embedding", "collection.count",
                           "collection.query"}}

GenerationOnlyAfterRetrieval ==
    FlatHeld =>
        /\ (collection = <<>> \/ input.query_embedding = <<>>) => NoPointsRetrieved
        /\ NoPointsRetrieved =>
              /\ GenerationCallIndexes = {}
              /\ ~raised
              /\ output.value.retrieved_points = <<>>
              /\ output.value.rewritten_points = <<>>
        /\ ~NoPointsRetrieved =>
              /\ Cardinality(GenerationCallIndexes) = 1
              /\ RetrievalCallIndexes # {}
              /\ \A r \in RetrievalCallIndexes :
                    \A c \in GenerationCallIndexes : r < c

\* The store rejects the query: the error is answered with empty lists and
\* no generation call.
RetrievalErrorWitness ==
    /\ FlatHeld
    /\ input.query_embedding # <<>>
    /\ FlatSearch.raised
    /\ GenerationCallIndexes = {}
    /\ output.value.retrieved_points = <<>>

\* Points are retrieved and one generation call follows the query.
PointsRetrievedWitness ==
    /\ FlatHeld
    /\ ~NoPointsRetrieved
    /\ Len(output.value.retrieved_points) = 2
    /\ Len(output.value.rewritten_points) = 2
    /\ Cardinality(GenerationCallIndexes) = 1

(***************************************************************************)
(* The endpoints and the background save (api/rag.py).                     *)
(***************************************************************************)
\* calculate_total_lines (selection_service.py, lines 287-321) for one list
\* of sections: lineCount or 1 per bullet and 2 per section with bullets.
RECURSIVE SumLines(_)
SumLines(selectedBullets) ==
    IF selectedBullets = <<>> THEN 0
    ELSE (IF Head(selectedBullets).lineCount = 0 THEN 1
          ELSE Head(selectedBullets).lineCount)
             + SumLines(Tail(selectedBullets))

RECURSIVE SectionLines(_)
SectionLines(sections) ==
    IF sections = <<>> THEN 0
    ELSE SumLines(Head(sections).selectedBullets)
             + (IF Head(sections).selectedBullets # <<>> THEN 2 ELSE 0)
             + SectionLines(Tail(sections))

calculate_total_lines(selected_resume) ==
    SectionLines(selected_resume["experiences"])
        + SectionLines(selected_resume["education"])
        + SectionLines(selected_resume["projects"])
        + SectionLines(selected_resume["customSections"])

\* The tech keywords of identify_gaps with their keyword.title().
tech_keywords ==
    <<
      [keyword |-> <<"p", "y", "t", "h", "o", "n">>,
       title |-> <<"P", "y", "t", "h", "o", "n">>],
      [keyword |-> <<"j", "a", "v", "a", "s", "c", "r", "i", "p", "t">>,
       title |-> <<"J", "a", "v", "a", "s", "c", "r", "i", "p", "t">>],
      [keyword |-> <<"r", "e", "a", "c", "t">>,
       title |-> <<"R", "e", "a", "c", "t">>],
      [keyword |-> <<"n", "o", "d", "e">>,
       title |-> <<"N", "o", "d", "e">>],
      [keyword |-> <<"a", "w", "s">>,
       title |-> <<"A", "w", "s">>],
      [keyword |-> <<"k", "u", "b", "e", "r", "n", "e", "t", "e", "s">>,
       title |-> <<"K", "u", "b", "e", "r", "n", "e", "t", "e", "s">>],
      [keyword |-> <<"d", "o", "c", "k", "e", "r">>,
       title |-> <<"D", "o", "c", "k", "e", "r">>],
      [keyword |-> <<"m", "i", "c", "r", "o", "s", "e", "r", "v", "i", "c", "e", "s">>,
       title |-> <<"M", "i", "c", "r", "o", "s", "e", "r", "v", "i", "c", "e", "s">>],
      [keyword |-> <<"a", "p", "i">>,
       title |-> <<"A", "p", "i">>],
      [keyword |-> <<"s", "q", "l">>,
       title |-> <<"S", "q", "l">>],
      [keyword |-> <<"m", "o", "n", "g", "o", "d", "b">>,
       title |-> <<"M", "o", "n", "g", "o", "d", "b">>],
      [keyword |-> <<"p", "o", "s", "t", "g", "r", "e", "s", "q", "l">>,
       title |-> <<"P", "o", "s", "t", "g", "r", "e", "s", "q", "l">>],
      [keyword |-> <<"m", "a", "c", "h", "i", "n", "e", " ", "l", "e", "a", "r", "n", "i", "n", "g">>,
       title |-> <<"M", "a", "c", "h", "i", "n", "e", " ", "L", "e", "a", "r", "n", "i", "n", "g">>],
      [keyword |-> <<"a", "i">>,
       title |-> <<"A", "i">>],
      [keyword |-> <<"m", "l">>,
       title |-> <<"M", "l">>],
      [keyword |-> <<"t", "e", "n", "s", "o", "r", "f", "l", "o", "w">>,
       title |-> <<"T", "e", "n", "s", "o", "r", "f", "l", "o", "w">>],
      [keyword |-> <<"p", "y", "t", "o", "r", "c", "h">>,
       title |-> <<"P", "y", "t", "o", "r", "c", "h">>]    >>

RECURSIVE JoinLowered(_)
\* " ".join(b.text.lower() for b in selectedBullets)
JoinLowered(selectedBullets) ==
    IF selectedBullets = <<>> THEN <<>>
    ELSE IF Len(selectedBullets) = 1 THEN Lower(Head(selectedBullets).text)
    ELSE Lower(Head(selectedBullets).text) \o <<" ">>
             \o JoinLowered(Tail(selectedBullets))

RECURSIVE ExperienceText(_)
\* resume_text: the experiences' bullets, one experience after the other
ExperienceText(experiences) ==
    IF experiences = <<>> THEN <<>>
    ELSE JoinLowered(Head(experiences).selectedBullets)
             \o ExperienceText(Tail(experiences))

\* identify_gaps (selection_service.py, lines 323-358)
identify_gaps(selected_resume, job_description) ==
    LET job_lower == Lower(job_description)
        resume_text == ExperienceText(selected_resume["experiences"])
        missing == SelectSeq(tech_keywords,
                             LAMBDA k : /\ IsSubstring(k.keyword, job_lower)
                                        /\ ~IsSubstring(k.keyword, resume_text))
    IN  Prefix([i \in 1..Len(missing) |-> missing[i].title], 5)

\* _save_results as the module defines it last (lines 331-350; the earlier
\* definition of lines 119-150 is replaced by it).  The payload is the dict
\* of the structured endpoint or the response model of the flat one, which
\* takes no item assignment; every exception is caught and printed.
save_results(payload, storage) ==
    LET saved == storage = "writable" /\ payload = "dict"
    IN  [calls |-> <<Step("_save_results"), Step("os.makedirs")>>
                       \o (IF saved THEN <<Step("json.dump")>> ELSE <<>>),
         saved |-> saved,
         raised |-> FALSE]

\* The task runs once the response was sent, unless the process stops first.
BackgroundOutcomes == {"writable", "unwritable", "never"}

background_task(payload, background) ==
    IF background = "never" THEN <<>>
    ELSE save_results(payload, background).calls

Scheduled == <<Step("background_tasks.add_task"), Step("return")>>

HTTPException == [kind |-> "raise", value |-> <<>>]

\* Lines 22-62: the pipeline's exception becomes a 500 answer; its result
\* is handed to add_task and returned.
optimize_resume_flat(service, background) ==
    IF service.result.kind = "raise"
    THEN [response |-> HTTPException, calls |-> service.calls]
    ELSE [response |-> service.result,
          calls |-> service.calls \o Scheduled
                        \o background_task("model", background)]

OptimizationResponse(optimized_resume, job_description) ==
    [kind |-> "return",
     value |-> [mode |-> "optimize", optimizedResume |-> optimized_resume,
                totalLineCount |-> calculate_total_lines(optimized_resume),
                maxLines |-> 50,
                fitsOnePage |-> calculate_total_lines(optimized_resume) <= 50,
                gaps |-> identify_gaps(optimized_resume, job_description)]]

\* Mutant: a save that did not write fails the request.
optimize_resume_structured_awaiting_save(service, job_description, background) ==
    [response |-> IF /\ background # "never"
                     /\ save_results("dict", background).saved
                  THEN OptimizationResponse(service.result, job_description)
                  ELSE HTTPException,
     calls |-> service.calls \o background_task("dict", background)
                   \o Scheduled]

\* Lines 248-329: total lines and gaps are computed, the dict is handed to
\* add_task and the response is returned.
optimize_resume_structured(service, job_description, background) ==
    [response |-> OptimizationResponse(service.result, job_description),
     calls |-> service.calls \o Scheduled
                   \o background_task("dict", background)]

\* An endpoint answered r for the request and outcomes in.
Responded(name, in, r) ==
    /\ op' = name
    /\ input' = in
    /\ output' = r.response
    /\ calls' = r.calls
    /\ raised' = (r.response.kind = "raise")
    /\ UNCHANGED <<collection, loop>>

OptimizeResumeFlat ==
    /\ op = "idle"
    /\ \E job_description \in QueryPool, top_k \in 1..MaxTopK,
          embedded \in BOOLEAN, store_strict \in BOOLEAN,
          optimization_mode \in RequestModes, response \in FlatOutcomes,
          background \in BackgroundOutcomes :
         \E dist \in [StoredEmbeddings(collection) -> {0, 1}] :
           /\ embedded \/ \A e \in DOMAIN dist : dist[e] = 0
           /\ OutcomesRead(search_similar(collection, dist, job_description,
                               top_k, TRUE,
                               QueryEmbedding(embedded, job_description),
                               store_strict),
                           store_strict, response)
           /\ Responded("optimize_resume_flat",
                  [job_description |-> job_description, top_k |-> top_k,
                   use_hybrid |-> TRUE,
                   query_embedding |-> QueryEmbedding(embedded, job_description),
                   dist |-> dist, store_strict |-> store_strict,
                   optimization_mode |-> optimization_mode,
                   response |-> response, background |-> background],
                  optimize_resume_flat(
                      process_rag_request(collection, dist, job_description,
                          top_k, TRUE,
                          QueryEmbedding(embedded, job_description),
                          store_strict, optimization_mode, response),
                      background))

JobAi == <<"a", "i">>

\* A request whose job embedding is generated, and one naming a tech keyword
\* whose embedding request fails.
JobSetups ==
    {[job_description |-> JobGoC,
      embedding_outcome |-> [kind |-> "value",
                             value |-> ProviderEmbedding(JobGoC)]],
     [job_description |-> JobAi,
      embedding_outcome |-> [kind |-> "raise", value |-> <<>>]]}

\* The provider fails for every section, or for none.
RECURSIVE UniformList(_, _)
UniformList(sections, fails) ==
    IF sections = <<>> THEN <<>>
    ELSE <<IF fails \/ Head(sections).bullets = <<>> THEN [kind |-> "raise"]
           ELSE CHOOSE r \in SectionRewriteSamples(Head(sections).bullets) :
                    r.kind = "object">>
             \o UniformList(Tail(sections), fails)

UniformRewrites(resume) ==
    {[experiences |-> UniformList(resume["experiences"], fails),
      education |-> UniformList(resume["education"], fails),
      projects |-> UniformList(resume["projects"], fails),
      customSections |-> UniformList(resume["customSections"], fails)] :
        fails \in BOOLEAN}

OptimizeResumeStructured ==
    /\ op = "idle"
    /\ \E resume \in Resumes, setup \in JobSetups,
          background \in BackgroundOutcomes :
         \E rewrites \in UniformRewrites(resume) :
           Responded("optimize_resume_structured",
               [resume |-> resume,
                job_description |-> setup.job_description,
                counts |-> DefaultCounts,
                optimization_mode |-> "creative",
                embedding_outcome |-> setup.embedding_outcome,
                responses |->
                    AnsweredResponses(resume,
                        generate_job_embedding(setup.embedding_outcome)),
                rewrites |-> rewrites, background |-> background],
               optimize_resume_structured(
                   optimize_structured_resume(resume, setup.job_description,
                       DefaultCounts, "creative", setup.embedding_outcome,
                       AnsweredResponses(resume,
                           generate_job_embedding(setup.embedding_outcome)),
                       rewrites),
                   setup.job_description, background))

NextEndpoints == OptimizeResumeFlat \/ OptimizeResumeStructured \/ Return

\* The server starts on a persisted collection holding the stored points.
InitEndpoints ==
    /\ op = "idle"
    /\ input = <<>>
    /\ output = <<>>
    /\ calls = <<>>
    /\ raised = FALSE
    /\ collection = add_resume_points(<<>>,
                         StoredPoints(<<DocBoth, DocOne, DocNone>>),
                         FaithfulResponses(
                             StoredPoints(<<DocBoth, DocOne, DocNone>>),
                             DefaultBatchSize), "raise")
    /\ loop = LoopAtStart

SpecEndpoints == InitEndpoints /\ [][NextEndpoints]_vars

(***************************************************************************)
(* C26: the save of a result is scheduled only after the result has been   *)
(* computed and never affects the response: the value returned is the same *)
(* whether the background save succeeds, fails or never runs, and a save   *)
(* failure is never raised to the caller.                                  *)
(***************************************************************************)
EndpointHeld == op \in {"optimize_resume_flat", "optimize_resume_structured"}

\* What the services compute for the request held, whatever the save does.
ComputedResult ==
    IF op = "optimize_resume_flat"
    THEN process_rag_request(collection, input.dist, input.job_description,
                             input.top_k, input.use_hybrid,
                             input.query_embedding, input.store_strict,
                             input.optimization_mode, input.response)
    ELSE optimize_structured_resume(input.resume, input.job_description,
                                    input.counts, input.optimization_mode,
                                    input.embedding_outcome, input.responses,
                                    input.rewrites)

ResponseFor(computed) ==
    IF op = "optimize_resume_flat" THEN computed.result
    ELSE OptimizationResponse(computed.result, input.job_description)

IndexesOf(name) == {c \in 1..Len(calls) : calls[c].name = name}

SaveRan == IndexesOf("_save_results") # {}

SaveWrote == IndexesOf("json.dump") # {}

SaveNeverAffectsResponse ==
    EndpointHeld =>
        LET computed == ComputedResult
            response == ResponseFor(computed)
        IN  /\ output = response
            /\ raised = (response.kind = "raise")
            /\ \A a \in IndexesOf("background_tasks.add_task") :
                  /\ a = Len(computed.calls) + 1
                  /\ SubSeq(calls, 1, a - 1) = computed.calls
                  /\ \A s \in IndexesOf("_save_results") : a + 1 < s
            /\ SaveRan => IndexesOf("background_tasks.add_task") # {}
            /\ (input.background = "never") => ~SaveRan

\* The save ran and wrote nothing, and the response holds the rewritten
\* resume.
FailedSaveWitness ==
    /\ op = "optimize_resume_structured"
    /\ input.background = "unwritable"
    /\ SaveRan
    /\ ~SaveWrote
    /\ ~raised
    /\ output.value.totalLineCount > 0

\* The save wrote the file.
SavedWitness ==
    /\ op = "optimize_resume_structured"
    /\ SaveWrote
    /\ output.value.gaps # <<>>

\* The flat pipeline fails and nothing is scheduled.
FlatFailureWitness ==
    /\ op = "optimize_resume_flat"
    /\ raised
    /\ IndexesOf("background_tasks.add_task") = {}

====
